---- MODULE Spec2Model ----
(***************************************************************************)
(* Cloud Pixel Playground: the WebSocket gateway with Redis pub/sub        *)
(* (websocket-gateway/server.js, Redis variant), the Canvas API that owns  *)
(* the pixel hash, the Redis server both talk to, and the browser client.  *)
(*                                                                         *)
(* Conventions of the model                                                *)
(*  - A JSON value is a record tagged by t: "null" (null / undefined /     *)
(*    absent), "num" (v2 is twice the number, so 1.5 is v2 = 3 and the     *)
(*    number is an integer iff v2 is even) or "str" (s is the sequence of  *)
(*    its characters).                                                     *)
(*  - Every gateway pod sends its Redis commands over one connection       *)
(*    (redisPublisher); Redis executes them in the order they were issued. *)
(*    cmdQ[p] is that pipeline: RedisExec takes the head command, applies  *)
(*    it (or fails it when Redis is down) and runs the code that follows   *)
(*    the await of that command.                                           *)
(*  - One Tick is one period of the gateway's 30 s interval timer.         *)
(*  - Every pixel_update a client sends gets an index in edits; the index  *)
(*    travels with the pixel_updated message as id. It stands for the      *)
(*    identity of the message and is never read by the modelled code.      *)
(*    pixel_updated carries the timestamp of the Canvas API's response;    *)
(*    the timestamps of the other messages are not modelled.               *)
(*  - The browser's WebSocketService (frontend websocketService.js) is     *)
(*    modelled for one page: serviceWs is this.ws, readyState the state of *)
(*    each socket it created, reconnectTimers its pending setTimeouts.     *)
(***************************************************************************)
EXTENDS Integers, Sequences, FiniteSets, TLC

(***************************************************************************)
(* Bounds of the model                                                     *)
(***************************************************************************)
\* pixel_update messages sent by all clients together
MaxEdits == 1
\* times the relay Redis becomes unreachable
MaxRelayFails == 1
\* times the Canvas API loses its Redis connection
MaxStoreFails == 1
\* commands a handler may find queued on a pod's pipeline
MaxCmds == 1
\* user_update notices queued for one pod
MaxNotices == 1
\* set_username messages sent by all clients together
MaxNames == 1
\* ping messages answered for all clients together
MaxPings == 1
\* gateway processes killed in a scenario with restarts
MaxCrashes == 1
\* sockets and reconnect timers of one WebSocketService together, when the
\* application calls connect()
MaxSockets == 2
\* pixel_update messages one session sends in a row
MaxBurst == 2
\* commands of one pod that wait for Redis when a session joins a busy pod
MaxPipeline == 2

(***************************************************************************)
(* Program constants                                                       *)
(***************************************************************************)
CANVAS_WIDTH == 50
CANVAS_HEIGHT == 50
POD_TTL_SECONDS == 60
STATS_INTERVAL_MS == 30000
MAX_USERNAME_LENGTH == 20
TtlTicks == (POD_TTL_SECONDS * 1000) \div STATS_INTERVAL_MS

BROADCAST_CHANNEL == "pixel-updates"
USER_EVENTS_CHANNEL == "user-events"

Pods == {"A", "B"}
Sessions == {"s1", "s2", "s3"}
\* The load balancer's choice of pod for each connection.
Home(s) == IF s = "s3" THEN "B" ELSE "A"

(***************************************************************************)
(* JSON values                                                             *)
(***************************************************************************)
Null == [t |-> "null"]
Num(n) == [t |-> "num", v2 |-> 2 * n]
Half(n2) == [t |-> "num", v2 |-> n2]
Str(s) == [t |-> "str", s |-> s]

IsNumber(v) == v.t = "num"
IsString(v) == v.t = "str"
IsInteger(v) == v.t = "num" /\ v.v2 % 2 = 0
\* JavaScript truthiness of a JSON value.
Truthy(v) ==
  CASE v.t = "null" -> FALSE
    [] v.t = "num" -> v.v2 # 0
    [] v.t = "str" -> Len(v.s) > 0

HexDigits ==
  {"0", "1", "2", "3", "4", "5", "6", "7", "8", "9",
   "A", "B", "C", "D", "E", "F", "a", "b", "c", "d", "e", "f"}

\* /^#[0-9A-F]{6}$/i.test(color)
ColorRegex(s) ==
  /\ Len(s) = 7
  /\ s[1] = "#"
  /\ \A i \in 2..7 : s[i] \in HexDigits

\* initializeCanvas: the color of every cell
White == Str(<<"#", "F", "F", "F", "F", "F", "F">>)
Red == Str(<<"#", "F", "F", "0", "0", "0", "0">>)
GreenLower == Str(<<"#", "0", "0", "f", "f", "0", "0">>)
BadHex == Str(<<"#", "G", "G", "0", "0", "0", "0">>)
Bob == Str(<<"b", "o", "b">>)
Anonymous == Str(<<"A", "n", "o", "n", "y", "m", "o", "u", "s">>)

\* The pixel_update payloads the clients choose from.
EditPayloads ==
  { [x |-> Num(5), y |-> Num(5), color |-> Red, username |-> Null],
    [x |-> Num(0), y |-> Num(49), color |-> GreenLower, username |-> Bob],
    [x |-> Num(50), y |-> Num(5), color |-> Red, username |-> Null],
    [x |-> Num(5), y |-> Num(0 - 1), color |-> Red, username |-> Null],
    [x |-> Half(3), y |-> Num(0), color |-> Red, username |-> Null],
    [x |-> Str(<<"5">>), y |-> Num(5), color |-> Red, username |-> Null],
    [x |-> Num(5), y |-> Num(5), color |-> BadHex, username |-> Null] }

\* The set_username payloads the clients choose from.
NamePayloads ==
  { Bob, Str(<<" ", "b", "o", "b", " ">>),
    Null, Num(5), Str(<<>>), Str(<<" ", " ">>),
    Str([i \in 1..(MAX_USERNAME_LENGTH + 2) |-> IF i = MAX_USERNAME_LENGTH THEN " " ELSE "x"]) }

VARIABLES
  relayUp,           \* the relay Redis is reachable
  relayFails,        \* times it has failed so far
  initPc,            \* per pod: position in startServer / initRedis
  redisReady,        \* per pod: the redisReady flag
  subs,              \* per pod: channels redisSubscriber is subscribed to
  ws,                \* per session: "new", "open", "closing" or "closed" (readyState);
                     \* "zombie": readyState OPEN, the peer is gone without closing;
                     \* "broken": readyState OPEN, ws.send() throws
  clients,           \* per pod: the sessions in the clients map
  username,          \* per session: clientInfo.username
  inbox,             \* per session: connected / pixel_updated / error messages received
  lastStats,         \* per session: activeUsers of the last stats message received
  lastUserList,      \* per session: users of the last user_list message received
  edits,             \* the pixel_update requests sent so far and their progress
  cmdQ,              \* per pod: commands issued on redisPublisher, not yet executed
  pixelQ,            \* per pod: pixel-updates messages published, not yet delivered
  userQ,             \* per pod: user-events notices published, not yet delivered
  podKey,            \* per pod: value stored under pod:<id>:users
  ttl,               \* per pod: ticks the key still lives (0: no key)
  timerDue,          \* per pod: the interval timer has expired and not yet run
  names,             \* set_username messages sent so far
  isRedisConnected,  \* Canvas API: its isRedisConnected flag
  storeUp,           \* the Canvas API's Redis is reachable
  storeFails,        \* times it has failed so far
  pixels,            \* canvas:pixels hash: the fields written since initializeCanvas
  serviceWs,         \* WebSocketService: this.ws, a session or NoSocket (null)
  shouldReconnect,   \* WebSocketService: this.shouldReconnect
  serviceUsername,   \* WebSocketService: this.username
  reconnectTimers,   \* timers set by onclose that have not fired yet
  readyState,        \* per session: the browser's side of the socket: "none" (not
                     \* created), "connecting", "open", "closing" or "closed"
  sent,              \* per session: set_username frames sent, not yet handled by the gateway
  crashes            \* gateway processes killed so far

vars ==
  <<relayUp, relayFails, initPc, redisReady, subs, ws, clients, username, inbox,
    lastStats, lastUserList, edits, cmdQ, pixelQ, userQ, podKey, ttl, timerDue,
    names, isRedisConnected, storeUp, storeFails, pixels,
    serviceWs, shouldReconnect, serviceUsername, reconnectTimers, readyState, sent, crashes>>

serviceVars == <<serviceWs, shouldReconnect, serviceUsername, reconnectTimers, readyState, sent>>
clientVars == <<serviceVars, crashes>>
gatewayVars == <<initPc, redisReady, subs>>
sessionVars == <<ws, clients, username>>
seenVars == <<inbox, lastStats, lastUserList>>
relayVars == <<cmdQ, pixelQ, userQ, podKey, ttl>>
canvasVars == <<isRedisConnected, storeUp, storeFails, pixels>>

NoStats == 0 - 1
NoSocket == "null"

\* new WebSocketService(): the state the constructor leaves; no socket exists.
ServiceInit ==
  /\ serviceWs = NoSocket
  /\ shouldReconnect = TRUE
  /\ serviceUsername = Null
  /\ reconnectTimers = 0
  /\ readyState = [s \in Sessions |-> "none"]
  /\ sent = [s \in Sessions |-> <<>>]
  /\ crashes = 0

NoKey == [count |-> 0, usernames |-> <<>>]

Init ==
  /\ ServiceInit
  /\ relayUp \in BOOLEAN
  /\ relayFails = 0
  /\ initPc = [p \in Pods |-> "connect"]
  /\ redisReady = [p \in Pods |-> FALSE]
  /\ subs = [p \in Pods |-> {}]
  /\ ws = [s \in Sessions |-> "new"]
  /\ clients = [p \in Pods |-> {}]
  /\ username = [s \in Sessions |-> Null]
  /\ inbox = [s \in Sessions |-> <<>>]
  /\ lastStats = [s \in Sessions |-> NoStats]
  /\ lastUserList = [s \in Sessions |-> <<>>]
  /\ edits = <<>>
  /\ cmdQ = [p \in Pods |-> <<>>]
  /\ pixelQ = [p \in Pods |-> <<>>]
  /\ userQ = [p \in Pods |-> 0]
  /\ podKey = [p \in Pods |-> NoKey]
  /\ ttl = [p \in Pods |-> 0]
  /\ timerDue = [p \in Pods |-> FALSE]
  /\ names = 0
  /\ isRedisConnected = TRUE
  /\ storeUp = TRUE
  /\ storeFails = 0
  /\ pixels = <<>>

(***************************************************************************)
(* Helpers of the gateway                                                  *)
(***************************************************************************)
SessionOrder == <<"s1", "s2", "s3">>
PodOrder == <<"A", "B">>

\* readyState === WebSocket.OPEN
IsOpen(w, s) == w[s] \in {"open", "zombie", "broken"}

\* ws.send() returns without an exception.
SendOk(w, s) == w[s] # "broken"

\* The sessions a broadcast reaches: registered in clients, readyState OPEN and
\* the send does not throw.
Targets(cl, w, p) == {s \in cl[p] : IsOpen(w, s) /\ SendOk(w, s)}

\* A broadcast that leaves out the session the edit came from.
BroadcastToOthers(box, cl, w, p, msg) ==
  [s \in Sessions |->
     IF s \in Targets(cl, w, p) /\ s # edits[msg.id].sender THEN Append(box[s], msg)
     ELSE box[s]]

\* broadcastToLocalClients for a message kept in the inbox.
BroadcastToLocalClients(box, cl, w, p, msg) ==
  [s \in Sessions |-> IF s \in Targets(cl, w, p) THEN Append(box[s], msg) ELSE box[s]]

\* broadcastToLocalClients for a stats / user_list message: the last value is kept.
BroadcastValue(last, cl, w, p, v) ==
  [s \in Sessions |-> IF s \in Targets(cl, w, p) THEN v ELSE last[s]]

\* A reply that goes to every open socket.
SendToAll(box, w, s, msg) ==
  [t \in Sessions |-> IF IsOpen(w, t) /\ SendOk(w, t) THEN Append(box[t], msg) ELSE box[t]]

\* senderWs.send(): ws drops a frame sent on a socket that is not OPEN.
SendTo(box, w, s, msg) ==
  [box EXCEPT ![s] = IF IsOpen(w, s) /\ SendOk(w, s) THEN Append(@, msg) ELSE @]

ErrorMsg(text) == [type |-> "error", message |-> text]

\* info.username || "Anonymous"
DisplayName(u) == IF Truthy(u) THEN u ELSE Anonymous

\* updatePodUserCount: the value written under this pod's key.
PodSnapshot(cl, un, p) ==
  [count |-> Cardinality(cl[p]),
   usernames |->
     LET named(s) == s \in cl[p] /\ DisplayName(un[s]) # Anonymous
         picked == SelectSeq(SessionOrder, named)
     IN [i \in 1..Len(picked) |-> DisplayName(un[picked[i]])]]

\* GET /health of the gateway.
Health(p) ==
  [status |-> "ok",
   connections |-> Cardinality(clients[p]),
   users |->
     LET picked == SelectSeq(SessionOrder, LAMBDA s : s \in clients[p])
     IN [i \in 1..Len(picked) |-> DisplayName(username[picked[i]])]]

\* redisPublisher.keys("pod:*:users"): the keys that have not expired.
LiveKeys == SelectSeq(PodOrder, LAMBDA p : ttl[p] > 0)

KeysCmd == [op |-> "keys"]
GetCmd(ks, total, all) == [op |-> "get", keys |-> ks, total |-> total, names |-> all]

\* A handler may issue a new chain of commands only while the pipeline has room.
HasRoom(p) == Len(cmdQ[p]) < MaxCmds

\* redisPublisher is open: quit() has not been called on it.
PublisherOpen(p) == initPc[p] \notin {"quit", "stopping"}

\* The pod sends its commands to Redis: redisReady is set and the publisher is open.
\* A command on a publisher that has quit is rejected at once, and the catch of its
\* caller does what the caller does without redisReady.
UsesRelay(p) == redisReady[p] /\ PublisherOpen(p)

\* broadcastStats(), up to its first await: updatePodUserCount issues setEx when
\* redisReady; otherwise broadcastAggregatedStats falls back to the local count.
StartStats(p, cl, w, un) ==
  /\ cmdQ' =
       IF UsesRelay(p)
       THEN [cmdQ EXCEPT ![p] = Append(@, [op |-> "setEx", val |-> PodSnapshot(cl, un, p)])]
       ELSE cmdQ
  /\ lastStats' =
       IF UsesRelay(p)
       THEN lastStats
       ELSE BroadcastValue(lastStats, cl, w, p, Cardinality(cl[p]))
  /\ UNCHANGED lastUserList

\* broadcastStats() by a handler that runs while the pipeline has room.
BroadcastStats(p, cl, w, un) == (UsesRelay(p) => HasRoom(p)) /\ StartStats(p, cl, w, un)

(***************************************************************************)
(* The relay Redis and the Canvas API's Redis connection (environment)     *)
(***************************************************************************)
RelayFail ==
  /\ relayUp
  /\ relayFails < MaxRelayFails
  /\ relayUp' = FALSE
  /\ relayFails' = relayFails + 1
  /\ UNCHANGED <<clientVars, gatewayVars, sessionVars, seenVars, edits, relayVars, timerDue,
                 names, canvasVars>>

RelayRecover ==
  /\ ~relayUp
  /\ relayUp' = TRUE
  /\ UNCHANGED <<relayFails, clientVars, gatewayVars, sessionVars, seenVars, edits, relayVars,
                 timerDue, names, canvasVars>>

StoreFail ==
  /\ storeUp
  /\ storeFails < MaxStoreFails
  /\ storeUp' = FALSE
  /\ storeFails' = storeFails + 1
  /\ UNCHANGED <<relayUp, relayFails, clientVars, gatewayVars, sessionVars, seenVars, edits,
                 relayVars, timerDue, names, isRedisConnected, pixels>>

\* redisClient.on("error"): the Canvas API notices the lost connection.
CanvasRedisError ==
  /\ ~storeUp
  /\ isRedisConnected
  /\ isRedisConnected' = FALSE
  /\ UNCHANGED <<relayUp, relayFails, clientVars, gatewayVars, sessionVars, seenVars, edits,
                 relayVars, timerDue, names, storeUp, storeFails, pixels>>

\* The client reconnects: redisClient.on("connect").
StoreRecover ==
  /\ ~storeUp
  /\ storeUp' = TRUE
  /\ isRedisConnected' = TRUE
  /\ UNCHANGED <<relayUp, relayFails, clientVars, gatewayVars, sessionVars, seenVars, edits,
                 relayVars, timerDue, names, storeFails, pixels>>

(***************************************************************************)
(* startServer / initRedis of one pod                                      *)
(***************************************************************************)
\* await redisPublisher.connect(); await redisSubscriber.connect()
InitConnect(p) ==
  /\ initPc[p] = "connect"
  /\ initPc' = [initPc EXCEPT ![p] = IF relayUp THEN "subPixel" ELSE "listening"]
  /\ UNCHANGED <<relayUp, relayFails, clientVars, redisReady, subs, sessionVars, seenVars, edits,
                 relayVars, timerDue, names, canvasVars>>

\* await redisSubscriber.subscribe(BROADCAST_CHANNEL, ...)
InitSubscribePixel(p) ==
  /\ initPc[p] = "subPixel"
  /\ IF relayUp
     THEN /\ subs' = [subs EXCEPT ![p] = @ \cup {BROADCAST_CHANNEL}]
          /\ initPc' = [initPc EXCEPT ![p] = "subUser"]
     ELSE /\ initPc' = [initPc EXCEPT ![p] = "listening"]
          /\ UNCHANGED subs
  /\ UNCHANGED <<relayUp, relayFails, clientVars, redisReady, sessionVars, seenVars, edits,
                 relayVars, timerDue, names, canvasVars>>

\* await redisSubscriber.subscribe(USER_EVENTS_CHANNEL, ...); redisReady = true
InitSubscribeUser(p) ==
  /\ initPc[p] = "subUser"
  /\ IF relayUp
     THEN /\ subs' = [subs EXCEPT ![p] = @ \cup {USER_EVENTS_CHANNEL}]
          /\ redisReady' = [redisReady EXCEPT ![p] = TRUE]
     ELSE UNCHANGED <<subs, redisReady>>
  /\ initPc' = [initPc EXCEPT ![p] = "listening"]
  /\ UNCHANGED <<relayUp, relayFails, clientVars, sessionVars, seenVars, edits, relayVars,
                 timerDue, names, canvasVars>>

(***************************************************************************)
(* Sessions: wss.on("connection"), ws.on("close"), set_username            *)
(***************************************************************************)
\* A connection handler that sends no welcome message.
ConnectNoWelcome(s) ==
  LET p == Home(s)
      cl == [clients EXCEPT ![p] = @ \cup {s}]
      w == [ws EXCEPT ![s] = "open"]
      un == [username EXCEPT ![s] = Null]
  IN /\ ws[s] = "new"
     /\ initPc[p] = "listening"
     /\ clients' = cl
     /\ ws' = w
     /\ username' = un
     /\ BroadcastStats(p, cl, w, un)
     /\ UNCHANGED <<relayUp, relayFails, clientVars, gatewayVars, inbox, edits, pixelQ, userQ, podKey,
                    ttl, timerDue, names, canvasVars>>

Connect(s) ==
  LET p == Home(s)
      cl == [clients EXCEPT ![p] = @ \cup {s}]
      w == [ws EXCEPT ![s] = "open"]
      un == [username EXCEPT ![s] = Null]
  IN /\ ws[s] = "new"
     /\ initPc[p] = "listening"
     /\ clients' = cl
     /\ ws' = w
     /\ username' = un
     /\ inbox' = [inbox EXCEPT ![s] = Append(@, [type |-> "connected", clientId |-> s])]
     /\ BroadcastStats(p, cl, w, un)
     /\ UNCHANGED <<relayUp, relayFails, clientVars, gatewayVars, edits, pixelQ, userQ, podKey, ttl,
                    timerDue, names, canvasVars>>

Close(s) ==
  LET p == Home(s)
      cl == [clients EXCEPT ![p] = @ \ {s}]
      w == [ws EXCEPT ![s] = "closed"]
  IN /\ ws[s] = "open"
     /\ clients' = cl
     /\ ws' = w
     /\ BroadcastStats(p, cl, w, username)
     /\ UNCHANGED <<relayUp, relayFails, clientVars, gatewayVars, username, inbox, edits, pixelQ,
                    userQ, podKey, ttl, timerDue, names, canvasVars>>

IsSpace(c) == c \in {" ", "\t", "\n"}

RECURSIVE TrimLeft(_)
TrimLeft(s) == IF s # <<>> /\ IsSpace(Head(s)) THEN TrimLeft(Tail(s)) ELSE s

RECURSIVE TrimRight(_)
TrimRight(s) ==
  IF s # <<>> /\ IsSpace(s[Len(s)]) THEN TrimRight(SubSeq(s, 1, Len(s) - 1)) ELSE s

\* username.trim().substring(0, 20)
Sanitize(v) ==
  LET t == TrimRight(TrimLeft(v.s))
  IN Str(SubSeq(t, 1, IF Len(t) < MAX_USERNAME_LENGTH THEN Len(t) ELSE MAX_USERNAME_LENGTH))

\* handleSetUsername without the test that the name is not empty.
SetUsernameAnyString(s, v) ==
  LET p == Home(s)
      un == [username EXCEPT ![s] = Sanitize(v)]
  IN /\ ws[s] = "open"
     /\ names < MaxNames
     /\ names' = names + 1
     /\ IF IsString(v) /\ s \in clients[p]
        THEN /\ username' = un
             /\ BroadcastStats(p, clients, ws, un)
        ELSE UNCHANGED <<username, cmdQ, lastStats, lastUserList>>
     /\ UNCHANGED <<relayUp, relayFails, clientVars, gatewayVars, ws, clients, inbox, edits, pixelQ,
                    userQ, podKey, ttl, timerDue, canvasVars>>

\* handleSetUsername for the set_username message of session s with username v.
HandleSetUsername(s, v) ==
  LET p == Home(s)
      un == [username EXCEPT ![s] = Sanitize(v)]
  IN /\ ws[s] = "open"
     /\ IF Truthy(v) /\ IsString(v) /\ s \in clients[p]
        THEN /\ username' = un
             /\ BroadcastStats(p, clients, ws, un)
        ELSE UNCHANGED <<username, cmdQ, lastStats, lastUserList>>
     /\ UNCHANGED <<relayUp, relayFails, gatewayVars, ws, clients, inbox, edits, pixelQ,
                    userQ, podKey, ttl, timerDue, canvasVars>>

\* A client sends set_username; at most MaxNames such messages are sent.
SetUsername(s, v) ==
  /\ names < MaxNames
  /\ names' = names + 1
  /\ HandleSetUsername(s, v)
  /\ UNCHANGED clientVars

(***************************************************************************)
(* The interval timer                                                      *)
(***************************************************************************)
\* 30 s pass for the timers, but the keys were stored without an expiry.
TickNoExpiry ==
  /\ \A p \in Pods : ~timerDue[p]
  /\ timerDue' = [p \in Pods |-> TRUE]
  /\ UNCHANGED <<relayUp, relayFails, clientVars, gatewayVars, sessionVars, seenVars, edits, cmdQ,
                 pixelQ, userQ, podKey, ttl, names, canvasVars>>

\* 30 s pass: every pod's interval timer expires; every key is 30 s older.
Tick ==
  /\ \A p \in Pods : ~timerDue[p]
  /\ timerDue' = [p \in Pods |-> TRUE]
  /\ ttl' = [p \in Pods |-> IF ttl[p] > 0 THEN ttl[p] - 1 ELSE 0]
  /\ UNCHANGED <<relayUp, relayFails, clientVars, gatewayVars, sessionVars, seenVars, edits, cmdQ,
                 pixelQ, userQ, podKey, names, canvasVars>>

\* An interval callback that refreshes only while sessions are connected.
TimerFireIfClients(p) ==
  /\ timerDue[p]
  /\ timerDue' = [timerDue EXCEPT ![p] = FALSE]
  /\ IF Cardinality(clients[p]) > 0
     THEN BroadcastStats(p, clients, ws, username)
     ELSE UNCHANGED <<cmdQ, lastStats, lastUserList>>
  /\ UNCHANGED <<relayUp, relayFails, clientVars, gatewayVars, sessionVars, inbox, edits, pixelQ,
                 userQ, podKey, ttl, names, canvasVars>>

\* setInterval callback
TimerFire(p) ==
  /\ timerDue[p]
  /\ timerDue' = [timerDue EXCEPT ![p] = FALSE]
  /\ IF Cardinality(clients[p]) > 0 \/ redisReady[p]
     THEN BroadcastStats(p, clients, ws, username)
     ELSE UNCHANGED <<cmdQ, lastStats, lastUserList>>
  /\ UNCHANGED <<relayUp, relayFails, clientVars, gatewayVars, sessionVars, inbox, edits, pixelQ,
                 userQ, podKey, ttl, names, canvasVars>>

(***************************************************************************)
(* The Canvas API: PUT /api/pixel                                          *)
(***************************************************************************)
\* `${x},${y}`: the hash field of a pixel.
PixelKey(x, y) == <<x.v2, y.v2>>

\* PUT /api/pixel without the test of the color format.
CanvasCheckAnyColor(x, y, color) ==
  IF ~isRedisConnected
  THEN [status |-> 503, error |-> "Redis not connected"]
  ELSE IF ~IsNumber(x) \/ ~IsNumber(y) \/ ~IsString(color)
  THEN [status |-> 400, error |-> "Invalid data format"]
  ELSE IF x.v2 < 0 \/ x.v2 >= 2 * CANVAS_WIDTH \/ y.v2 < 0 \/ y.v2 >= 2 * CANVAS_HEIGHT
  THEN [status |-> 400, error |-> "Coordinates out of bounds"]
  ELSE [status |-> 200, error |-> ""]

\* The checks of PUT /api/pixel, in order: the status and the error text.
CanvasCheck(x, y, color) ==
  IF ~isRedisConnected
  THEN [status |-> 503, error |-> "Redis not connected"]
  ELSE IF ~IsNumber(x) \/ ~IsNumber(y) \/ ~IsString(color)
  THEN [status |-> 400, error |-> "Invalid data format"]
  ELSE IF x.v2 < 0 \/ x.v2 >= 2 * CANVAS_WIDTH \/ y.v2 < 0 \/ y.v2 >= 2 * CANVAS_HEIGHT
  THEN [status |-> 400, error |-> "Coordinates out of bounds"]
  ELSE IF ~ColorRegex(color.s)
  THEN [status |-> 400, error |-> "Invalid color format. Use hex format like #FF0000"]
  ELSE [status |-> 200, error |-> ""]

\* redisClient.hSet(CANVAS_KEY, field, color)
HSet(h, k, c) == [f \in DOMAIN h \cup {k} |-> IF f = k THEN c ELSE h[f]]

\* The greatest timestamp a response has carried so far.
LastStamp ==
  LET RECURSIVE Top(_)
      Top(n) == IF n = 0 THEN 0
                ELSE IF edits[n].ts > Top(n - 1) THEN edits[n].ts ELSE Top(n - 1)
  IN Top(Len(edits))

\* Date.now() of the next response: the same millisecond as the last one or a
\* later one.
Stamps == {LastStamp, LastStamp + 1} \ {0}

\* A handler that writes the pixel before it checks the range and the color.
CanvasPutWriteFirst(e) ==
  LET d == edits[e]
      chk == CanvasCheck(d.x, d.y, d.color)
      typed == isRedisConnected /\ IsNumber(d.x) /\ IsNumber(d.y) /\ IsString(d.color)
  IN /\ d.st = "fetch"
     /\ pixels' = IF typed /\ storeUp THEN HSet(pixels, PixelKey(d.x, d.y), d.color)
                   ELSE pixels
     /\ IF chk.status # 200
        THEN edits' = [edits EXCEPT ![e].st = "response", ![e].res = chk]
        ELSE IF storeUp
        THEN \E t \in Stamps :
               edits' = [edits EXCEPT ![e].st = "response", ![e].res = chk,
                                      ![e].wrote = TRUE, ![e].ts = t]
        ELSE edits' = [edits EXCEPT ![e].st = "response",
                         ![e].res = [status |-> 500, error |-> "Failed to update pixel"]]
     /\ UNCHANGED <<relayUp, relayFails, clientVars, gatewayVars, sessionVars, seenVars, relayVars,
                    timerDue, names, isRedisConnected, storeUp, storeFails>>

\* The handler of PUT /api/pixel runs for request e.
CanvasPut(e) ==
  LET d == edits[e]
      chk == CanvasCheck(d.x, d.y, d.color)
  IN /\ d.st = "fetch"
     /\ IF chk.status # 200
        THEN /\ edits' = [edits EXCEPT ![e].st = "response", ![e].res = chk]
             /\ UNCHANGED pixels
        ELSE IF storeUp
        THEN /\ pixels' = HSet(pixels, PixelKey(d.x, d.y), d.color)
             /\ \E t \in Stamps :
                  edits' = [edits EXCEPT ![e].st = "response", ![e].res = chk,
                                         ![e].wrote = TRUE, ![e].ts = t]
        ELSE /\ edits' = [edits EXCEPT ![e].st = "response",
                            ![e].res = [status |-> 500, error |-> "Failed to update pixel"]]
             /\ UNCHANGED pixels
     /\ UNCHANGED <<relayUp, relayFails, clientVars, gatewayVars, sessionVars, seenVars, relayVars,
                    timerDue, names, isRedisConnected, storeUp, storeFails>>

\* The Canvas API cannot be reached: fetch rejects.
FetchFails(e) ==
  /\ edits[e].st = "fetch"
  /\ edits' = [edits EXCEPT ![e].st = "thrown"]
  /\ UNCHANGED <<relayUp, relayFails, clientVars, gatewayVars, sessionVars, seenVars, relayVars,
                 timerDue, names, canvasVars>>

(***************************************************************************)
(* The gateway: handlePixelUpdate and broadcastToAll                       *)
(***************************************************************************)
NoRes == [status |-> 0, error |-> ""]

\* A client sends pixel_update; handlePixelUpdate runs up to the await of fetch.
HandlePixelUpdate(s, d) ==
  LET typesOk == IsNumber(d.x) /\ IsNumber(d.y) /\ IsString(d.color)
      e == [sender |-> s, pod |-> Home(s), x |-> d.x, y |-> d.y, color |-> d.color,
            username |-> d.username, st |-> IF typesOk THEN "fetch" ELSE "invalid",
            res |-> NoRes, wrote |-> FALSE, ts |-> 0, aud |-> {}]
  IN /\ ws[s] = "open"
     /\ edits' = Append(edits, e)
     /\ inbox' = IF typesOk THEN inbox ELSE SendTo(inbox, ws, s, ErrorMsg("Invalid pixel data"))
     /\ UNCHANGED <<relayUp, relayFails, clientVars, gatewayVars, sessionVars, lastStats, lastUserList,
                    relayVars, timerDue, names, canvasVars>>

\* At most MaxEdits pixel_update messages are sent.
SendPixelUpdate(s, d) == Len(edits) < MaxEdits /\ HandlePixelUpdate(s, d)

\* A resolution that does not look at the payload.
ResolveStoredOnly(d) ==
  IF d.sender \in clients[d.pod] /\ Truthy(username[d.sender]) THEN username[d.sender]
  ELSE Anonymous

\* username || clients.get(senderWs)?.username || "Anonymous"
ResolveUsername(d) ==
  IF Truthy(d.username) THEN d.username
  ELSE IF d.sender \in clients[d.pod] /\ Truthy(username[d.sender]) THEN username[d.sender]
  ELSE Anonymous

\* A pixel_updated message that names the session the edit came from.
PixelUpdatedWithClientId(e) ==
  [type |-> "pixel_updated", x |-> edits[e].x, y |-> edits[e].y, color |-> edits[e].color,
   username |-> ResolveUsername(edits[e]), timestamp |-> edits[e].ts, id |-> e,
   clientId |-> edits[e].sender]

\* The message handlePixelUpdate hands to broadcastToAll.
PixelUpdated(e) ==
  [type |-> "pixel_updated", x |-> edits[e].x, y |-> edits[e].y, color |-> edits[e].color,
   username |-> ResolveUsername(edits[e]), timestamp |-> edits[e].ts, id |-> e]

\* Whether handlePixelUpdate goes on to broadcastToAll with this response.
\* A gateway that does not look at the status of the Canvas API's response.
ResponseIgnored(res) == TRUE

\* response.ok of fetch.
ResponseOk(res) == res.status = 200

\* handlePixelUpdate resumes with the response of the Canvas API (or fetch's error).
GatewayResume(e) ==
  LET d == edits[e]
      p == d.pod
  IN /\ d.st \in {"response", "thrown"}
     /\ IF d.st = "thrown"
        THEN /\ inbox' = SendTo(inbox, ws, d.sender, ErrorMsg("Failed to process pixel update"))
             /\ edits' = [edits EXCEPT ![e].st = "error"]
             /\ UNCHANGED cmdQ
        ELSE IF ~ResponseOk(d.res)
        THEN /\ inbox' = SendTo(inbox, ws, d.sender,
                                ErrorMsg(IF d.res.error # "" THEN d.res.error
                                         ELSE "Failed to update pixel"))
             /\ edits' = [edits EXCEPT ![e].st = "error"]
             /\ UNCHANGED cmdQ
        ELSE IF UsesRelay(p)
        THEN \* broadcastToAll: redisPublisher.publish is issued
             /\ HasRoom(p)
             /\ cmdQ' = [cmdQ EXCEPT ![p] =
                           Append(@, [op |-> "publishPixel", msg |-> PixelUpdated(e)])]
             /\ edits' = [edits EXCEPT ![e].st = "publishing",
                                       ![e].aud = Targets(clients, ws, p)]
             /\ UNCHANGED inbox
        ELSE \* broadcastToAll: fallback if Redis not available
             /\ inbox' = BroadcastToLocalClients(inbox, clients, ws, p, PixelUpdated(e))
             /\ edits' = [edits EXCEPT ![e].st = "fallback",
                                       ![e].aud = Targets(clients, ws, p)]
             /\ UNCHANGED cmdQ
     /\ UNCHANGED <<relayUp, relayFails, clientVars, gatewayVars, sessionVars, lastStats, lastUserList,
                    pixelQ, userQ, podKey, ttl, timerDue, names, canvasVars>>

(***************************************************************************)
(* The relay: commands of one pod executed by Redis, and what follows the  *)
(* await of each in the gateway                                            *)
(***************************************************************************)
\* The edit whose pixel_updated message this is.
EditOf(msg) == msg.id

\* The notice of updatePodUserCount on the user-events channel.
UserUpdate(p) == [type |-> "user_update", podId |-> p]

\* A setEx under one key for all pods, without POD_ID in it.
ExecSetExSharedKey(p, c, rest) ==
  /\ IF relayUp
     THEN /\ podKey' = [q \in Pods |-> c.val]
          /\ ttl' = [q \in Pods |-> TtlTicks]
          /\ cmdQ' = [cmdQ EXCEPT ![p] = Append(rest, [op |-> "publishUser", msg |-> UserUpdate(p)])]
     ELSE /\ cmdQ' = [cmdQ EXCEPT ![p] = Append(rest, KeysCmd)]
          /\ UNCHANGED <<podKey, ttl>>
  /\ UNCHANGED <<userQ, pixelQ, seenVars, edits>>

\* setEx of updatePodUserCount: on success the publish of the notice follows; on
\* failure the catch ends updatePodUserCount and broadcastAggregatedStats starts.
ExecSetEx(p, c, rest) ==
  /\ IF relayUp
     THEN /\ podKey' = [podKey EXCEPT ![p] = c.val]
          /\ ttl' = [ttl EXCEPT ![p] = TtlTicks]
          /\ cmdQ' = [cmdQ EXCEPT ![p] = Append(rest, [op |-> "publishUser", msg |-> UserUpdate(p)])]
     ELSE /\ cmdQ' = [cmdQ EXCEPT ![p] = Append(rest, KeysCmd)]
          /\ UNCHANGED <<podKey, ttl>>
  /\ UNCHANGED <<userQ, pixelQ, seenVars, edits>>

\* publish of the user_update notice; broadcastAggregatedStats follows either way.
\* A notice that reaches a pod where MaxNotices are waiting is merged with the last
\* of them: each of them starts the same broadcastAggregatedStats().
ExecPublishUser(p, c, rest) ==
  /\ IF relayUp
     THEN userQ' = [q \in Pods |->
                      IF USER_EVENTS_CHANNEL \in subs[q] /\ userQ[q] < MaxNotices
                      THEN userQ[q] + 1 ELSE userQ[q]]
     ELSE UNCHANGED userQ
  /\ cmdQ' = [cmdQ EXCEPT ![p] = Append(rest, KeysCmd)]
  /\ UNCHANGED <<podKey, ttl, pixelQ, seenVars, edits>>

\* The stats of a gateway without the relay: the count of the pod's own clients.
SendOwnCount(p, total, all) ==
  /\ lastStats' = BroadcastValue(lastStats, clients, ws, p, Cardinality(clients[p]))
  /\ lastUserList' = BroadcastValue(lastUserList, clients, ws, p, all)

\* The two broadcasts that end broadcastAggregatedStats.
SendAggregated(p, total, all) ==
  /\ lastStats' = BroadcastValue(lastStats, clients, ws, p, total)
  /\ lastUserList' = BroadcastValue(lastUserList, clients, ws, p, all)

\* The catch of broadcastAggregatedStats: local stats only.
SendLocalStats(p) ==
  /\ lastStats' = BroadcastValue(lastStats, clients, ws, p, Cardinality(clients[p]))
  /\ UNCHANGED lastUserList

\* keys("pod:*:users") of broadcastAggregatedStats
ExecKeys(p, c, rest) ==
  /\ IF relayUp
     THEN IF LiveKeys = <<>>
          THEN /\ SendAggregated(p, 0, <<>>)
               /\ cmdQ' = [cmdQ EXCEPT ![p] = rest]
          ELSE /\ cmdQ' = [cmdQ EXCEPT ![p] = Append(rest, GetCmd(LiveKeys, 0, <<>>))]
               /\ UNCHANGED <<lastStats, lastUserList>>
     ELSE /\ SendLocalStats(p)
          /\ cmdQ' = [cmdQ EXCEPT ![p] = rest]
  /\ UNCHANGED <<podKey, ttl, userQ, pixelQ, inbox, edits>>

\* get(key) inside the loop of broadcastAggregatedStats
ExecGet(p, c, rest) ==
  LET k == Head(c.keys)
      found == ttl[k] > 0
      total == IF found THEN c.total + podKey[k].count ELSE c.total
      all == IF found THEN c.names \o podKey[k].usernames ELSE c.names
  IN /\ IF relayUp
        THEN IF Tail(c.keys) = <<>>
             THEN /\ SendAggregated(p, total, all)
                  /\ cmdQ' = [cmdQ EXCEPT ![p] = rest]
             ELSE /\ cmdQ' = [cmdQ EXCEPT ![p] = Append(rest, GetCmd(Tail(c.keys), total, all))]
                  /\ UNCHANGED <<lastStats, lastUserList>>
        ELSE /\ SendLocalStats(p)
             /\ cmdQ' = [cmdQ EXCEPT ![p] = rest]
     /\ UNCHANGED <<podKey, ttl, userQ, pixelQ, inbox, edits>>

\* The broadcast of a gateway without the relay: the pod's own clients only.
ExecPublishPixelLocalOnly(p, c, rest) ==
  /\ inbox' = BroadcastToLocalClients(inbox, clients, ws, p, c.msg)
  /\ edits' = [edits EXCEPT ![EditOf(c.msg)].st = "fallback",
                            ![EditOf(c.msg)].aud = Targets(clients, ws, p)]
  /\ cmdQ' = [cmdQ EXCEPT ![p] = rest]
  /\ UNCHANGED <<pixelQ, podKey, ttl, userQ, lastStats, lastUserList>>

\* A publish that is followed by the local broadcast also when it succeeds.
ExecPublishPixelAndLocal(p, c, rest) ==
  /\ IF relayUp
     THEN /\ pixelQ' = [q \in Pods |->
                          IF BROADCAST_CHANNEL \in subs[q] THEN Append(pixelQ[q], c.msg)
                          ELSE pixelQ[q]]
          /\ edits' = [edits EXCEPT ![EditOf(c.msg)].st = "published"]
     ELSE /\ edits' = [edits EXCEPT ![EditOf(c.msg)].st = "fallback",
                                    ![EditOf(c.msg)].aud = Targets(clients, ws, p)]
          /\ UNCHANGED pixelQ
  /\ inbox' = BroadcastToLocalClients(inbox, clients, ws, p, c.msg)
  /\ cmdQ' = [cmdQ EXCEPT ![p] = rest]
  /\ UNCHANGED <<podKey, ttl, userQ, lastStats, lastUserList>>

\* A publish whose failure is only logged.
ExecPublishPixelNoFallback(p, c, rest) ==
  /\ IF relayUp
     THEN /\ pixelQ' = [q \in Pods |->
                          IF BROADCAST_CHANNEL \in subs[q] THEN Append(pixelQ[q], c.msg)
                          ELSE pixelQ[q]]
          /\ edits' = [edits EXCEPT ![EditOf(c.msg)].st = "published"]
     ELSE /\ edits' = [edits EXCEPT ![EditOf(c.msg)].st = "fallback",
                                    ![EditOf(c.msg)].aud = Targets(clients, ws, p)]
          /\ UNCHANGED pixelQ
  /\ UNCHANGED inbox
  /\ cmdQ' = [cmdQ EXCEPT ![p] = rest]
  /\ UNCHANGED <<podKey, ttl, userQ, lastStats, lastUserList>>

\* publish of broadcastToAll: on failure the catch broadcasts to the local clients.
ExecPublishPixel(p, c, rest) ==
  /\ IF relayUp
     THEN /\ pixelQ' = [q \in Pods |->
                          IF BROADCAST_CHANNEL \in subs[q] THEN Append(pixelQ[q], c.msg)
                          ELSE pixelQ[q]]
          /\ edits' = [edits EXCEPT ![EditOf(c.msg)].st = "published"]
          /\ UNCHANGED inbox
     ELSE /\ inbox' = BroadcastToLocalClients(inbox, clients, ws, p, c.msg)
          /\ edits' = [edits EXCEPT ![EditOf(c.msg)].st = "fallback",
                                    ![EditOf(c.msg)].aud = Targets(clients, ws, p)]
          /\ UNCHANGED pixelQ
  /\ cmdQ' = [cmdQ EXCEPT ![p] = rest]
  /\ UNCHANGED <<podKey, ttl, userQ, lastStats, lastUserList>>

RedisExec(p) ==
  /\ cmdQ[p] # <<>>
  /\ LET c == Head(cmdQ[p])
         rest == Tail(cmdQ[p])
     IN CASE c.op = "setEx" -> ExecSetEx(p, c, rest)
          [] c.op = "publishUser" -> ExecPublishUser(p, c, rest)
          [] c.op = "keys" -> ExecKeys(p, c, rest)
          [] c.op = "get" -> ExecGet(p, c, rest)
          [] c.op = "publishPixel" -> ExecPublishPixel(p, c, rest)
  /\ UNCHANGED <<relayUp, relayFails, clientVars, gatewayVars, sessionVars, timerDue, names, canvasVars>>

\* The pixel-updates subscription callback of pod p.
PixelDeliver(p) ==
  /\ pixelQ[p] # <<>>
  /\ pixelQ' = [pixelQ EXCEPT ![p] = Tail(@)]
  /\ inbox' = BroadcastToLocalClients(inbox, clients, ws, p, Head(pixelQ[p]))
  /\ UNCHANGED <<relayUp, relayFails, clientVars, gatewayVars, sessionVars, lastStats, lastUserList,
                 edits, cmdQ, userQ, podKey, ttl, timerDue, names, canvasVars>>

\* A user-events callback that runs the whole of broadcastStats().
NoticeDeliverEcho(p) ==
  /\ userQ[p] > 0
  /\ userQ' = [userQ EXCEPT ![p] = @ - 1]
  /\ BroadcastStats(p, clients, ws, username)
  /\ UNCHANGED <<relayUp, relayFails, clientVars, gatewayVars, sessionVars, inbox, edits, pixelQ,
                 podKey, ttl, timerDue, names, canvasVars>>

\* The user-events subscription callback of pod p: broadcastAggregatedStats.
NoticeDeliver(p) ==
  /\ userQ[p] > 0
  /\ userQ' = [userQ EXCEPT ![p] = @ - 1]
  /\ IF UsesRelay(p)
     THEN /\ HasRoom(p)
          /\ cmdQ' = [cmdQ EXCEPT ![p] = Append(@, KeysCmd)]
          /\ UNCHANGED <<lastStats, lastUserList>>
     ELSE /\ SendLocalStats(p)
          /\ UNCHANGED cmdQ
  /\ UNCHANGED <<relayUp, relayFails, clientVars, gatewayVars, sessionVars, inbox, edits, pixelQ,
                 podKey, ttl, timerDue, names, canvasVars>>

(***************************************************************************)
(* The system                                                              *)
(***************************************************************************)
Next ==
  \/ RelayFail
  \/ RelayRecover
  \/ StoreFail
  \/ CanvasRedisError
  \/ StoreRecover
  \/ \E p \in Pods : InitConnect(p)
  \/ \E p \in Pods : InitSubscribePixel(p)
  \/ \E p \in Pods : InitSubscribeUser(p)
  \/ \E s \in Sessions : Connect(s)
  \/ \E s \in Sessions : Close(s)
  \/ \E s \in Sessions, v \in NamePayloads : SetUsername(s, v)
  \/ Tick
  \/ \E p \in Pods : TimerFire(p)
  \/ \E s \in Sessions, d \in EditPayloads : SendPixelUpdate(s, d)
  \/ \E e \in 1..MaxEdits : e <= Len(edits) /\ CanvasPut(e)
  \/ \E e \in 1..MaxEdits : e <= Len(edits) /\ FetchFails(e)
  \/ \E e \in 1..MaxEdits : e <= Len(edits) /\ GatewayResume(e)
  \/ \E p \in Pods : RedisExec(p)
  \/ \E p \in Pods : PixelDeliver(p)
  \/ \E p \in Pods : NoticeDeliver(p)

Spec == Init /\ [][Next]_vars

(***************************************************************************)
(* The serving system: every pod has finished startServer with one of the  *)
(* outcomes of initRedis, some of the sessions are connected (s2 has set   *)
(* its name) and the presence traffic of these joins has settled.  Init    *)
(* reaches each of these states by the pods' starts, the joins, the        *)
(* set_username of s2 and rounds of the interval timer; the scenarios      *)
(* below start from them, with the budgets of the bounds unspent.          *)
(***************************************************************************)
\* The outcomes of initRedis: all awaits succeeded; connect failed; the second
\* subscribe failed.
InitOutcomes ==
  { [ready |-> TRUE, subs |-> {BROADCAST_CHANNEL, USER_EVENTS_CHANNEL}],
    [ready |-> FALSE, subs |-> {}],
    [ready |-> FALSE, subs |-> {BROADCAST_CHANNEL}] }

ServingClients(open) == [p \in Pods |-> {s \in open : Home(s) = p}]
ServingNames == [s \in Sessions |-> IF s = "s2" THEN Bob ELSE Null]

RECURSIVE SumReady(_, _, _)
SumReady(rdy, cl, ps) ==
  IF ps = <<>> THEN 0
  ELSE (IF rdy[Head(ps)] THEN Cardinality(cl[Head(ps)]) ELSE 0) + SumReady(rdy, cl, Tail(ps))

RECURSIVE NamesReady(_, _, _)
NamesReady(rdy, cl, ps) ==
  IF ps = <<>> THEN <<>>
  ELSE (IF rdy[Head(ps)] THEN PodSnapshot(cl, ServingNames, Head(ps)).usernames ELSE <<>>)
       \o NamesReady(rdy, cl, Tail(ps))

InitServing ==
  /\ ServiceInit
  /\ relayUp \in BOOLEAN
  /\ relayFails = 0
  /\ initPc = [p \in Pods |-> "listening"]
  /\ \E o \in [Pods -> InitOutcomes] :
       /\ redisReady = [p \in Pods |-> o[p].ready]
       /\ subs = [p \in Pods |-> o[p].subs]
  /\ \E open \in SUBSET Sessions :
       /\ ws = [s \in Sessions |-> IF s \in open THEN "open" ELSE "new"]
       /\ clients = ServingClients(open)
  /\ username = [s \in Sessions |-> IF ws[s] = "open" THEN ServingNames[s] ELSE Null]
  /\ inbox = [s \in Sessions |->
                IF ws[s] = "open" THEN <<[type |-> "connected", clientId |-> s]>> ELSE <<>>]
  /\ lastStats = [s \in Sessions |->
                    IF ws[s] # "open" THEN NoStats
                    ELSE IF redisReady[Home(s)] THEN SumReady(redisReady, clients, PodOrder)
                    ELSE Cardinality(clients[Home(s)])]
  /\ lastUserList = [s \in Sessions |->
                       IF ws[s] = "open" /\ redisReady[Home(s)]
                       THEN NamesReady(redisReady, clients, PodOrder)
                       ELSE <<>>]
  /\ edits = <<>>
  /\ cmdQ = [p \in Pods |-> <<>>]
  /\ pixelQ = [p \in Pods |-> <<>>]
  /\ userQ = [p \in Pods |-> 0]
  /\ podKey = [p \in Pods |->
                 IF redisReady[p] THEN PodSnapshot(clients, ServingNames, p) ELSE NoKey]
  /\ ttl = [p \in Pods |-> IF redisReady[p] THEN TtlTicks ELSE 0]
  /\ timerDue = [p \in Pods |-> FALSE]
  /\ names = 0
  /\ isRedisConnected = TRUE
  /\ storeUp = TRUE
  /\ storeFails = 0
  /\ pixels = <<>>

\* The edit pipeline over a fixed membership.
NextEdit ==
  \/ RelayFail
  \/ RelayRecover
  \/ StoreFail
  \/ CanvasRedisError
  \/ StoreRecover
  \/ \E s \in Sessions, d \in EditPayloads : SendPixelUpdate(s, d)
  \/ \E e \in 1..MaxEdits : e <= Len(edits) /\ CanvasPut(e)
  \/ \E e \in 1..MaxEdits : e <= Len(edits) /\ FetchFails(e)
  \/ \E e \in 1..MaxEdits : e <= Len(edits) /\ GatewayResume(e)
  \/ \E p \in Pods : RedisExec(p)
  \/ \E p \in Pods : PixelDeliver(p)

SpecEdit == InitServing /\ [][NextEdit]_vars

\* The edit pipeline while sessions leave, over a relay that has been healthy since
\* the pods started, so that both are ready, and that stays healthy.  The
\* event loop of a pod runs every callback that is ready, the Canvas API answers
\* every request and Redis executes every command: weak fairness of those steps.
\* The sessions that leave in this scenario: those of the pod the edits travel to.
Leavers == {s \in Sessions : Home(s) = "B"}

InitHealthy == InitServing /\ relayUp /\ \A p \in Pods : redisReady[p]

NextRelay ==
  \/ \E s \in Leavers : Close(s)
  \/ \E s \in Sessions, d \in EditPayloads : SendPixelUpdate(s, d)
  \/ \E e \in 1..MaxEdits : e <= Len(edits) /\ CanvasPut(e)
  \/ \E e \in 1..MaxEdits : e <= Len(edits) /\ GatewayResume(e)
  \/ \E p \in Pods : RedisExec(p)
  \/ \E p \in Pods : PixelDeliver(p)
  \/ \E p \in Pods : NoticeDeliver(p)

FairRelay ==
  /\ InitHealthy
  /\ [][NextRelay]_vars
  /\ \A e \in 1..MaxEdits : WF_vars(e <= Len(edits) /\ CanvasPut(e))
  /\ \A e \in 1..MaxEdits : WF_vars(e <= Len(edits) /\ GatewayResume(e))
  /\ \A p \in Pods : WF_vars(RedisExec(p))
  /\ \A p \in Pods : WF_vars(PixelDeliver(p))
  /\ \A p \in Pods : WF_vars(NoticeDeliver(p))

\* Redis answers within milliseconds and the interval is 30 s: the next interval
\* ends after the commands and notices of the last one are through.
Quiet == \A p \in Pods : cmdQ[p] = <<>> /\ userQ[p] = 0

TickQuiet == Quiet /\ Tick

\* The pods start, with the relay up or down, and sessions come and go.
NextStart ==
  \/ RelayFail
  \/ RelayRecover
  \/ \E p \in Pods : InitConnect(p)
  \/ \E p \in Pods : InitSubscribePixel(p)
  \/ \E p \in Pods : InitSubscribeUser(p)
  \/ \E s \in Sessions : Connect(s)
  \/ \E s \in Sessions : Close(s)
  \/ TickQuiet
  \/ \E p \in Pods : TimerFire(p)
  \/ \E p \in Pods : RedisExec(p)
  \/ \E p \in Pods : NoticeDeliver(p)

\* startServer runs initRedis to its end; time passes and the interval timer
\* fires; Redis executes every command and the event loop runs every callback
\* that is ready.  The relay's failures and recoveries and the clients' moves
\* are under no obligation.
FairStart ==
  /\ Init
  /\ [][NextStart]_vars
  /\ \A p \in Pods : WF_vars(InitConnect(p))
  /\ \A p \in Pods : WF_vars(InitSubscribePixel(p))
  /\ \A p \in Pods : WF_vars(InitSubscribeUser(p))
  /\ WF_vars(TickQuiet)
  /\ \A p \in Pods : WF_vars(TimerFire(p))
  /\ \A p \in Pods : WF_vars(RedisExec(p))
  /\ \A p \in Pods : WF_vars(NoticeDeliver(p))

\* Presence over a relay that is up from the start and stays up.
InitRelayUp == Init /\ relayUp

NextPresence ==
  \/ \E p \in Pods : InitConnect(p)
  \/ \E p \in Pods : InitSubscribePixel(p)
  \/ \E p \in Pods : InitSubscribeUser(p)
  \/ \E s \in Sessions : Connect(s)
  \/ \E s \in Sessions : Close(s)
  \/ TickQuiet
  \/ \E p \in Pods : TimerFire(p)
  \/ \E p \in Pods : RedisExec(p)
  \/ \E p \in Pods : NoticeDeliver(p)

FairPresence ==
  /\ InitRelayUp
  /\ [][NextPresence]_vars
  /\ \A p \in Pods : WF_vars(InitConnect(p))
  /\ \A p \in Pods : WF_vars(InitSubscribePixel(p))
  /\ \A p \in Pods : WF_vars(InitSubscribeUser(p))
  /\ \A p \in Pods : WF_vars(TimerFire(p))
  /\ \A p \in Pods : WF_vars(RedisExec(p))
  /\ \A p \in Pods : WF_vars(NoticeDeliver(p))

(***************************************************************************)
(* What the sessions have received                                         *)
(***************************************************************************)
\* The positions of session s's inbox that hold the pixel_updated of edit e.
PixelAt(s, e) ==
  {i \in 1..Len(inbox[s]) : inbox[s][i].type = "pixel_updated" /\ inbox[s][i].id = e}

CountPixel(s, e) == Cardinality(PixelAt(s, e))

CountErrors(s) == Cardinality({i \in 1..Len(inbox[s]) : inbox[s][i].type = "error"})

Edits == 1..Len(edits)

\* handlePixelUpdate has finished with edit e (its broadcast may still be on its way).
Handled(e) == edits[e].st \in {"invalid", "error", "publishing", "published", "fallback"}

\* The pixel_update the interface describes: integers in [0, 50) and a hex colour.
WellFormed(d) ==
  /\ IsInteger(d.x) /\ d.x.v2 >= 0 /\ d.x.v2 < 2 * CANVAS_WIDTH
  /\ IsInteger(d.y) /\ d.y.v2 >= 0 /\ d.y.v2 < 2 * CANVAS_HEIGHT
  /\ IsString(d.color) /\ ColorRegex(d.color.s)

\* The pixel_update the checks of the gateway and of the Canvas API let through.
PassesChecks(d) ==
  /\ IsNumber(d.x) /\ d.x.v2 >= 0 /\ d.x.v2 < 2 * CANVAS_WIDTH
  /\ IsNumber(d.y) /\ d.y.v2 >= 0 /\ d.y.v2 < 2 * CANVAS_HEIGHT
  /\ IsString(d.color) /\ ColorRegex(d.color.s)

\* Pod p has done its part for edit e: the fallback broadcast on the origin, or the
\* delivery of the published message by p's subscription.
DoneOn(e, p) ==
  \/ edits[e].st = "fallback" /\ edits[e].pod = p
  \/ /\ edits[e].st = "published"
     /\ BROADCAST_CHANNEL \in subs[p]
     /\ \A i \in 1..Len(pixelQ[p]) : pixelQ[p][i].id # e

(***************************************************************************)
(* C1: every pixel_update whose x or y is not an integer in [0, 50) or     *)
(* whose color is not #RRGGBB gets an error reply, is delivered to no      *)
(* session as pixel_updated and is not written to the canvas hash.         *)
(* The code lets the non-integer 1.5 through.                              *)
(***************************************************************************)
C1_MalformedRejected ==
  \A e \in Edits :
    ~WellFormed(edits[e]) =>
      /\ ~edits[e].wrote
      /\ \A s \in Sessions : CountPixel(s, e) = 0
      /\ Handled(e) => edits[e].st \in {"invalid", "error"} /\ CountErrors(edits[e].sender) = 1

C3_StoreFailureStillBroadcast ==
  \A e \in Edits :
    (PassesChecks(edits[e]) /\ Handled(e) /\ ~edits[e].wrote) =>
      /\ edits[e].st \in {"publishing", "published", "fallback"}
      /\ CountErrors(edits[e].sender) = 0

C5_CrossPodDelivery ==
  \A e \in 1..MaxEdits : \A s \in Sessions :
    (/\ e <= Len(edits)
     /\ edits[e].wrote
     /\ redisReady[edits[e].pod]
     /\ Home(s) # edits[e].pod
     /\ BROADCAST_CHANNEL \in subs[Home(s)]
     /\ ws[s] = "open")
      ~> (ws[s] # "open" \/ (e <= Len(edits) /\ CountPixel(s, e) = 1))

\* An edit of pod A has reached the open session of pod B.
C5_Witness ==
  \E e \in Edits :
    /\ edits[e].pod = "A"
    /\ edits[e].st = "published"
    /\ ws["s3"] = "open"
    /\ CountPixel("s3", e) = 1

(***************************************************************************)
(* C8: a pod that runs degraded while the relay is available eventually    *)
(* takes the publish path again (redisReady, the flag broadcastToAll       *)
(* tests), unless the relay fails again first.                             *)
(* initRedis runs once: a pod whose initRedis failed stays degraded.       *)
(***************************************************************************)
C8_DegradedIsTemporary ==
  \A p \in Pods :
    (initPc[p] = "listening" /\ ~redisReady[p] /\ relayUp) ~> (redisReady[p] \/ ~relayUp)

(***************************************************************************)
(* C9: the response of GET /health of a pod whose relay is ready differs   *)
(* from that of a pod whose relay is not.                                  *)
(* The response holds status, connections, users and a timestamp only.     *)
(***************************************************************************)
C9_HealthShowsReadiness ==
  \A p, q \in Pods :
    (initPc[p] = "listening" /\ initPc[q] = "listening" /\ redisReady[p] # redisReady[q])
      => Health(p) # Health(q)

\* The sum of the counts of the snapshots under the keys ks.
RECURSIVE SumCounts(_)
SumCounts(ks) == IF ks = <<>> THEN 0 ELSE podKey[Head(ks)].count + SumCounts(Tail(ks))

\* The number of clients registered on the pods ps.
RECURSIVE SumClients(_)
SumClients(ps) == IF ps = <<>> THEN 0 ELSE Cardinality(clients[Head(ps)]) + SumClients(Tail(ps))

(***************************************************************************)
(* C10: with the relay healthy, from some moment on the last stats value   *)
(* of every open session is the sum of the counts of the snapshots that    *)
(* have not expired, which is the number of sessions connected to all pods.*)
(***************************************************************************)
C10_StatsConverge ==
  <>[](\A s \in Sessions :
         ws[s] = "open" =>
           /\ lastStats[s] = SumCounts(LiveKeys)
           /\ lastStats[s] = SumClients(PodOrder))

\* Sessions on both pods, all of them told the total, with nothing under way.
C10_Witness ==
  /\ Quiet
  /\ Targets(clients, ws, "A") # {}
  /\ Targets(clients, ws, "B") # {}
  /\ \E s \in Sessions : ws[s] = "closed"
  /\ \A s \in Sessions : ws[s] = "open" => lastStats[s] = SumCounts(LiveKeys)
  /\ SumCounts(LiveKeys) = 2

(***************************************************************************)
(* A pod dies                                                              *)
(***************************************************************************)
\* The process of pod p is killed: its sockets and its Redis connections are
\* gone, with the commands and messages that were waiting on them; no handler
\* of it runs again.  Its key stays in Redis until it expires.
Crash(p) ==
  /\ initPc[p] = "listening"
  /\ initPc' = [initPc EXCEPT ![p] = "crashed"]
  /\ redisReady' = [redisReady EXCEPT ![p] = FALSE]
  /\ subs' = [subs EXCEPT ![p] = {}]
  /\ ws' = [s \in Sessions |-> IF s \in clients[p] THEN "closed" ELSE ws[s]]
  /\ clients' = [clients EXCEPT ![p] = {}]
  /\ cmdQ' = [cmdQ EXCEPT ![p] = <<>>]
  /\ pixelQ' = [pixelQ EXCEPT ![p] = <<>>]
  /\ userQ' = [userQ EXCEPT ![p] = 0]
  /\ timerDue' = [timerDue EXCEPT ![p] = FALSE]
  /\ edits' = [e \in 1..Len(edits) |->
                 IF edits[e].pod = p /\ edits[e].st \in {"fetch", "response", "thrown", "publishing"}
                 THEN [edits[e] EXCEPT !.st = "lost"]
                 ELSE edits[e]]
  /\ crashes' = crashes + 1
  /\ UNCHANGED <<relayUp, relayFails, serviceVars, username, seenVars, podKey, ttl, names,
                 canvasVars>>

\* Presence while pods die, over a relay that is up: the sessions of the serving
\* system leave, the interval timers run, a pod may be killed.
NextCrash ==
  \/ \E p \in Pods : Crash(p)
  \/ \E s \in Sessions : Close(s)
  \/ TickQuiet
  \/ \E p \in Pods : TimerFire(p)
  \/ \E p \in Pods : RedisExec(p)
  \/ \E p \in Pods : NoticeDeliver(p)

FairCrash ==
  /\ InitHealthy
  /\ [][NextCrash]_vars
  /\ WF_vars(TickQuiet)
  /\ \A p \in Pods : WF_vars(TimerFire(p))
  /\ \A p \in Pods : WF_vars(RedisExec(p))
  /\ \A p \in Pods : WF_vars(NoticeDeliver(p))

\* The names stored under the keys ks, in the order of the keys.
RECURSIVE NamesOf(_)
NamesOf(ks) == IF ks = <<>> THEN <<>> ELSE podKey[Head(ks)].usernames \o NamesOf(Tail(ks))

\* The sessions whose connections pod p accepts.
HomedOn(p) == {s \in Sessions : Home(s) = p}

\* Session s receives a stats or user_list message with a new value in this step.
GetsPresence(s) == lastStats'[s] # lastStats[s] \/ lastUserList'[s] # lastUserList[s]

NextNames ==
  \/ RelayFail
  \/ RelayRecover
  \/ \E s \in Sessions, v \in NamePayloads : SetUsername(s, v)
  \/ \E s \in Sessions : Close(s)
  \/ \E p \in Pods : RedisExec(p)
  \/ \E p \in Pods : NoticeDeliver(p)

SpecNames == InitServing /\ [][NextNames]_vars

\* No element of the sequence occurs twice.
Distinct(seq) == \A i, j \in 1..Len(seq) : seq[i] = seq[j] => i = j

(***************************************************************************)
(* C12: every user_list a session has received holds distinct, non-empty   *)
(* names only.                                                             *)
(* The lists of the pods are concatenated as they are: a name that two     *)
(* sessions have set appears twice.                                        *)
(***************************************************************************)
C12_DistinctNames ==
  \A s \in Sessions :
    /\ Distinct(lastUserList[s])
    /\ \A i \in 1..Len(lastUserList[s]) : lastUserList[s][i] # Str(<<>>)

(***************************************************************************)
(* C13: while the relay is unavailable to a pod, every presence recompute  *)
(* of the pod gives its open sessions the local count as stats and the     *)
(* local names as user_list.                                               *)
(* Both fallback branches of broadcastAggregatedStats send stats only.     *)
(***************************************************************************)
C13_FallbackPresence ==
  [][\A s \in Sessions :
       LET p == Home(s)
       IN (/\ ~redisReady[p] \/ ~relayUp
           /\ ws'[s] = "open"
           /\ lastStats'[s] # lastStats[s])
          => /\ lastStats'[s] = Cardinality(clients'[p])
             /\ lastUserList'[s] = PodSnapshot(clients', username', p).usernames]_vars

\* The peer of a session vanishes without a close frame: the socket stays OPEN on
\* the gateway and no handler of the gateway runs.
Zombie(s) ==
  /\ ws[s] = "open"
  /\ ws' = [ws EXCEPT ![s] = "zombie"]
  /\ UNCHANGED <<relayUp, relayFails, clientVars, gatewayVars, clients, username, seenVars, edits,
                 relayVars, timerDue, names, canvasVars>>

\* Healthy pods whose sessions close or fall silent while the interval runs.
NextZombie ==
  \/ \E s \in Sessions : Zombie(s)
  \/ \E s \in Sessions : Close(s)
  \/ TickQuiet
  \/ \E p \in Pods : TimerFire(p)
  \/ \E p \in Pods : RedisExec(p)
  \/ \E p \in Pods : NoticeDeliver(p)

FairZombie ==
  /\ InitHealthy
  /\ [][NextZombie]_vars
  /\ WF_vars(TickQuiet)
  /\ \A p \in Pods : WF_vars(TimerFire(p))
  /\ \A p \in Pods : WF_vars(RedisExec(p))
  /\ \A p \in Pods : WF_vars(NoticeDeliver(p))

(***************************************************************************)
(* C14: a session whose peer no longer answers is closed by the gateway    *)
(* and leaves the registry.                                                *)
(* The gateway sends no probe and never terminates a socket: the interval  *)
(* callback only recomputes presence, so the session stays registered and  *)
(* stays a target of every broadcast.                                      *)
(***************************************************************************)
C14_SilentSessionRemoved ==
  \A s \in Sessions : (ws[s] = "zombie") ~> (s \notin clients[Home(s)])

\* ws.on("error"): the session leaves the registry and nothing else happens. The
\* socket is no longer OPEN.
ErrorEvent(s) ==
  /\ ws[s] = "open"
  /\ ws' = [ws EXCEPT ![s] = "closing"]
  /\ clients' = [clients EXCEPT ![Home(s)] = @ \ {s}]
  /\ UNCHANGED <<relayUp, relayFails, clientVars, gatewayVars, username, seenVars, edits, relayVars,
                 timerDue, names, canvasVars>>

\* ws.on("close") for a socket that reported an error before: the session is
\* already out of the registry, broadcastStats() runs.
CloseAfterError(s) ==
  LET p == Home(s)
      cl == [clients EXCEPT ![p] = @ \ {s}]
      w == [ws EXCEPT ![s] = "closed"]
  IN /\ ws[s] = "closing"
     /\ clients' = cl
     /\ ws' = w
     /\ BroadcastStats(p, cl, w, username)
     /\ UNCHANGED <<relayUp, relayFails, clientVars, gatewayVars, username, inbox, edits, pixelQ,
                    userQ, podKey, ttl, timerDue, names, canvasVars>>

\* Sessions leave by a close or by a transport error; no interval elapses.
NextLeave ==
  \/ RelayFail
  \/ RelayRecover
  \/ \E s \in Sessions : Close(s)
  \/ \E s \in Sessions : ErrorEvent(s)
  \/ \E s \in Sessions : CloseAfterError(s)
  \/ \E p \in Pods : RedisExec(p)
  \/ \E p \in Pods : NoticeDeliver(p)

SpecLeave == InitServing /\ [][NextLeave]_vars

(***************************************************************************)
(* C15: every step that removes a session from the registry of a pod       *)
(* starts a presence recompute of that pod: a ready pod issues the setEx   *)
(* of its new snapshot, a degraded pod sends the new local count to the    *)
(* sessions that remain.                                                   *)
(* The error handler removes the session and starts nothing.               *)
(***************************************************************************)
C15_RemovalRecomputes ==
  [][\A p \in Pods :
       (clients'[p] # clients[p] /\ clients'[p] \subseteq clients[p])
       => IF redisReady[p]
          THEN /\ Len(cmdQ'[p]) = Len(cmdQ[p]) + 1
               /\ cmdQ'[p][Len(cmdQ'[p])] = [op |-> "setEx", val |-> PodSnapshot(clients', username', p)]
          ELSE \A s \in Targets(clients', ws', p) : lastStats'[s] = Cardinality(clients'[p])]_vars

\* From now on ws.send() on the socket of the session throws; readyState stays OPEN.
SendBreaks(s) ==
  /\ ws[s] = "open"
  /\ ws' = [ws EXCEPT ![s] = "broken"]
  /\ UNCHANGED <<relayUp, relayFails, clientVars, gatewayVars, clients, username, seenVars, edits,
                 relayVars, timerDue, names, canvasVars>>

\* Edits while the sends to some sessions fail.
NextBroken ==
  \/ NextEdit
  \/ \E s \in Sessions : SendBreaks(s)

SpecBroken == InitServing /\ [][NextBroken]_vars

\* The step delivers a pixel_updated broadcast of pod p to session t.
Reaches(p, t) ==
  /\ t \in clients[p]
  /\ Len(inbox'[t]) = Len(inbox[t]) + 1
  /\ inbox'[t][Len(inbox'[t])].type = "pixel_updated"

(***************************************************************************)
(* C16: when a pod broadcasts to its sessions and the send to one of them  *)
(* throws, that session is removed from the registry, and the other open   *)
(* sessions of the pod still get the message.                              *)
(* The catch around ws.send() only logs: the session stays registered.     *)
(***************************************************************************)
C16_FailedSendRemoves ==
  [][\A p \in Pods : \A s, t \in clients[p] :
       (ws[s] = "broken" /\ Reaches(p, t))
       => /\ s \notin clients'[p]
          /\ inbox'[s] = inbox[s]
          /\ \A u \in clients[p] : ws[u] \in {"open", "zombie"} => Reaches(p, u)]_vars

\* One session sends MaxBurst pixel_update messages one after the other; each
\* message event starts its own run of the async handler.
Burster == "s1"

NextBurst ==
  \/ \E d \in EditPayloads : Len(edits) < MaxBurst /\ HandlePixelUpdate(Burster, d)
  \/ \E e \in 1..MaxBurst : e <= Len(edits) /\ CanvasPut(e)
  \/ \E e \in 1..MaxBurst : e <= Len(edits) /\ GatewayResume(e)
  \/ \E p \in Pods : RedisExec(p)
  \/ \E p \in Pods : PixelDeliver(p)

InitBurst == InitHealthy /\ ws[Burster] = "open"

SpecBurst == InitBurst /\ [][NextBurst]_vars

(***************************************************************************)
(* C17: of two messages of one session, the store write of the earlier     *)
(* one never comes after the store write of the later one, and the         *)
(* earlier one's broadcast never reaches a session after the later one's.  *)
(* Each message runs its own handler and nothing orders their awaits.      *)
(***************************************************************************)
C17_InOrder ==
  [][\A e1, e2 \in 1..Len(edits) :
       (e1 < e2 /\ edits[e1].sender = edits[e2].sender)
       => /\ (edits[e2].wrote /\ ~edits[e1].wrote) => ~edits'[e1].wrote
          /\ \A s \in Sessions :
               (CountPixel(s, e2) = 1 /\ CountPixel(s, e1) = 0) => PixelAt(s, e1)' = PixelAt(s, e1)]_vars

\* Two colors for one cell, as the clients of the concurrent editing test send them.
RacePayloads ==
  { [x |-> Num(5), y |-> Num(5), color |-> Red, username |-> Null],
    [x |-> Num(5), y |-> Num(5), color |-> GreenLower, username |-> Null] }

\* PUT /api/pixel for a request that passes the checks, up to the await: hSet
\* reaches Redis.
CanvasHSet(e) ==
  LET d == edits[e]
  IN /\ d.st = "fetch"
     /\ CanvasCheck(d.x, d.y, d.color).status = 200
     /\ storeUp
     /\ pixels' = HSet(pixels, PixelKey(d.x, d.y), d.color)
     /\ edits' = [edits EXCEPT ![e].st = "stored", ![e].wrote = TRUE]
     /\ UNCHANGED <<relayUp, relayFails, clientVars, gatewayVars, sessionVars, seenVars, relayVars,
                    timerDue, names, isRedisConnected, storeUp, storeFails>>

\* PUT /api/pixel after the await: the replica that served the request reads its
\* clock and responds. Requests are spread over the replicas of the Canvas API and
\* the replies of Redis to different replicas arrive in any order.
CanvasRespond(e) ==
  /\ edits[e].st = "stored"
  /\ \E t \in Stamps :
       edits' = [edits EXCEPT ![e].st = "response", ![e].ts = t,
                              ![e].res = [status |-> 200, error |-> ""]]
  /\ UNCHANGED <<relayUp, relayFails, clientVars, gatewayVars, sessionVars, seenVars, relayVars,
                 timerDue, names, canvasVars>>

\* Sessions edit one cell at the same time.
NextRace ==
  \/ \E s \in Sessions, d \in RacePayloads : Len(edits) < MaxBurst /\ HandlePixelUpdate(s, d)
  \/ \E e \in 1..MaxBurst : e <= Len(edits) /\ CanvasHSet(e)
  \/ \E e \in 1..MaxBurst : e <= Len(edits) /\ CanvasRespond(e)
  \/ \E e \in 1..MaxBurst : e <= Len(edits) /\ GatewayResume(e)
  \/ \E p \in Pods : RedisExec(p)
  \/ \E p \in Pods : PixelDeliver(p)

InitRace == InitHealthy /\ isRedisConnected /\ storeUp

SpecRace == InitRace /\ [][NextRace]_vars

\* The pixel_updated messages session s has received for the cell with field k.
WritesSeen(s, k) ==
  {i \in 1..Len(inbox[s]) :
     inbox[s][i].type = "pixel_updated" /\ PixelKey(inbox[s][i].x, inbox[s][i].y) = k}

(***************************************************************************)
(* C18: once a session has received the pixel_updated of every edit sent,  *)
(* the color stored for a cell is the color of a message with the greatest *)
(* timestamp among those it received for the cell.                         *)
(* The timestamp is read after the await of hSet: the order of the         *)
(* timestamps need not be the order in which Redis ran the writes.         *)
(***************************************************************************)
C18_LastWriteWins ==
  \A s \in Sessions : \A k \in DOMAIN pixels :
    ((\A e \in Edits : CountPixel(s, e) = 1) /\ WritesSeen(s, k) # {})
    => \E i \in WritesSeen(s, k) :
         /\ \A j \in WritesSeen(s, k) : inbox[s][j].timestamp <= inbox[s][i].timestamp
         /\ inbox[s][i].color = pixels[k]

(***************************************************************************)
(* The Canvas API: PUT /api/pixels, POST /api/canvas/reset                 *)
(***************************************************************************)
\* A field `${x},${y}` that initializeCanvas writes: x and y are integers of the grid.
ValidKey(k) ==
  /\ k[1] % 2 = 0 /\ k[1] >= 0 /\ k[1] < 2 * CANVAS_WIDTH
  /\ k[2] % 2 = 0 /\ k[2] >= 0 /\ k[2] < 2 * CANVAS_HEIGHT

\* hGet(CANVAS_KEY, k) of a hash that initializeCanvas has filled: h holds the
\* fields written since, the other fields of the grid are white.
Stored(h, k) ==
  IF k \in DOMAIN h THEN h[k] ELSE IF ValidKey(k) THEN White ELSE Null

\* The entries of a batch that the loop of PUT /api/pixels does not skip.
BatchKeeps(px) ==
  /\ IsNumber(px.x) /\ IsNumber(px.y) /\ IsString(px.color)
  /\ ~(px.x.v2 < 0 \/ px.x.v2 >= 2 * CANVAS_WIDTH \/ px.y.v2 < 0 \/ px.y.v2 >= 2 * CANVAS_HEIGHT)
  /\ ColorRegex(px.color.s)

\* updates[`${x},${y}`] = color, entry after entry: the last kept entry of a field
\* is the one that stays.
RECURSIVE Updates(_)
Updates(b) ==
  IF b = <<>> THEN <<>>
  ELSE LET rest == Updates(SubSeq(b, 1, Len(b) - 1))
           px == b[Len(b)]
       IN IF BatchKeeps(px) THEN HSet(rest, PixelKey(px.x, px.y), px.color) ELSE rest

\* redisClient.hSet(CANVAS_KEY, updates)
HSetAll(h, u) == [f \in DOMAIN h \cup DOMAIN u |-> IF f \in DOMAIN u THEN u[f] ELSE h[f]]

\* The batches an HTTP client sends.
Batches == {<<a>> : a \in EditPayloads} \cup {<<a, b>> : a, b \in EditPayloads}

\* PUT /api/pixels by an HTTP client. The entries are kept in edits as requests
\* that are over; wrote marks the entries whose color reached the store.
BatchPut(b) ==
  LET u == Updates(b)
      done == isRedisConnected /\ u # <<>> /\ storeUp
      stays(i) == /\ BatchKeeps(b[i])
                  /\ \A j \in (i + 1)..Len(b) :
                       BatchKeeps(b[j]) => PixelKey(b[j].x, b[j].y) # PixelKey(b[i].x, b[i].y)
      rec(i) == [sender |-> "http", pod |-> "none", x |-> b[i].x, y |-> b[i].y,
                 color |-> b[i].color, username |-> Null, st |-> "batch", res |-> NoRes,
                 wrote |-> done /\ stays(i), ts |-> 0, aud |-> {}]
  IN /\ Len(edits) + Len(b) <= MaxBurst
     /\ edits' = edits \o [i \in 1..Len(b) |-> rec(i)]
     /\ pixels' = IF done THEN HSetAll(pixels, u) ELSE pixels
     /\ UNCHANGED <<relayUp, relayFails, clientVars, gatewayVars, sessionVars, seenVars, relayVars,
                    timerDue, names, isRedisConnected, storeUp, storeFails>>

\* A reset whose inner loop stops after x = 0.
InitializeCanvasFirstColumn(h) == [f \in {k \in DOMAIN h : ~(ValidKey(k) /\ k[1] = 0)} |-> h[f]]

\* initializeCanvas: hSet of white for every field of the grid; the other fields of
\* the hash stay.
InitializeCanvas(h) == [f \in {k \in DOMAIN h : ~ValidKey(k)} |-> h[f]]

\* POST /api/canvas/reset
Reset ==
  /\ pixels' = IF isRedisConnected /\ storeUp THEN InitializeCanvas(pixels) ELSE pixels
  /\ UNCHANGED <<relayUp, relayFails, clientVars, gatewayVars, sessionVars, seenVars, edits, relayVars,
                 timerDue, names, isRedisConnected, storeUp, storeFails>>

\* Writes to the grid: through the gateway, in batches and resets, while the
\* Canvas API's Redis fails and recovers.
NextCanvas ==
  \/ StoreFail
  \/ CanvasRedisError
  \/ StoreRecover
  \/ \E s \in Sessions, d \in EditPayloads : Len(edits) < MaxBurst /\ HandlePixelUpdate(s, d)
  \/ \E e \in 1..MaxBurst : e <= Len(edits) /\ CanvasPut(e)
  \/ \E b \in Batches : BatchPut(b)
  \/ Reset

InitCanvas == InitHealthy /\ \A s \in Sessions : ws[s] = "open"

SpecCanvas == InitCanvas /\ [][NextCanvas]_vars

\* Request e has written its color to the store in this step.
NewlyWritten(e) == edits'[e].wrote /\ (e > Len(edits) \/ ~edits[e].wrote)

(***************************************************************************)
(* C19: the color stored for a cell of the grid is the default color or    *)
(* the color of a request to that cell that passed the checks and was      *)
(* written; and a step changes a stored field only by writing the color    *)
(* of such a request to the field of that request, or by a reset to the    *)
(* default color: a rejected request changes nothing.                      *)
(***************************************************************************)
C19_OnlyAcceptedColors ==
  /\ [](\A k \in DOMAIN pixels :
          ValidKey(k) =>
            \/ pixels[k] = White
            \/ \E e \in Edits :
                 /\ edits[e].wrote /\ PassesChecks(edits[e])
                 /\ PixelKey(edits[e].x, edits[e].y) = k
                 /\ edits[e].color = pixels[k])
  /\ [][\A k \in DOMAIN pixels \cup DOMAIN pixels' :
          Stored(pixels', k) # Stored(pixels, k) =>
            \/ ValidKey(k) /\ Stored(pixels', k) = White /\ edits' = edits
            \/ \E e \in 1..Len(edits') :
                 /\ NewlyWritten(e) /\ PassesChecks(edits'[e])
                 /\ PixelKey(edits'[e].x, edits'[e].y) = k
                 /\ edits'[e].color = Stored(pixels', k)]_vars

\* An entry of a batch was written and a request through the gateway was rejected.
C19_Witness ==
  /\ Len(edits) = MaxBurst
  /\ \E e \in Edits : edits[e].st = "response" /\ edits[e].res.status = 400
  /\ \E e \in Edits : edits[e].st = "batch" /\ edits[e].wrote
                      /\ pixels[PixelKey(edits[e].x, edits[e].y)] = edits[e].color

(***************************************************************************)
(* C20: the hash of the grid holds a color for each of the 2,500 fields    *)
(* that initializeCanvas wrote (no code deletes a field) and no other      *)
(* field.                                                                  *)
(* A coordinate that is a number but not an integer passes the checks of   *)
(* PUT /api/pixel and of PUT /api/pixels and adds a field of its own.      *)
(***************************************************************************)
C20_ExactlyTheGrid ==
  \A k \in DOMAIN pixels : ValidKey(k) /\ IsString(pixels[k])

\* The fields of the grid: `${x},${y}` for 0 <= x < CANVAS_WIDTH, 0 <= y < CANVAS_HEIGHT.
GridKeys == {<<2 * x, 2 * y>> : x \in 0..(CANVAS_WIDTH - 1), y \in 0..(CANVAS_HEIGHT - 1)}

(***************************************************************************)
(* C21: after a reset that the Canvas API carries out, hGetAll gives the   *)
(* default color for each of the 2,500 fields of the grid, whatever the    *)
(* hash held before, and a second reset changes nothing.                   *)
(***************************************************************************)
C21_ResetGivesDefault ==
  [][(Reset /\ isRedisConnected /\ storeUp)
     => /\ Cardinality(GridKeys) = CANVAS_WIDTH * CANVAS_HEIGHT
        /\ \A k \in GridKeys : Stored(pixels', k) = White
        /\ InitializeCanvas(pixels') = pixels']_vars

\* A request wrote its color to a cell of the grid and a later reset took it back.
C21_Witness ==
  \E e \in Edits :
    /\ edits[e].wrote
    /\ PixelKey(edits[e].x, edits[e].y) \in GridKeys
    /\ Stored(pixels, PixelKey(edits[e].x, edits[e].y)) = White
    /\ \A f \in Edits : PixelKey(edits[f].x, edits[f].y) = PixelKey(edits[e].x, edits[e].y) => f = e

\* Sessions join while edits and presence notices are on their way.
NextJoin ==
  \/ \E s \in Sessions, d \in RacePayloads : SendPixelUpdate(s, d)
  \/ \E e \in 1..MaxEdits : e <= Len(edits) /\ CanvasPut(e)
  \/ \E e \in 1..MaxEdits : e <= Len(edits) /\ GatewayResume(e)
  \/ \E p \in Pods : RedisExec(p)
  \/ \E p \in Pods : PixelDeliver(p)
  \/ \E s \in Sessions : Connect(s)
  \/ \E p \in Pods : NoticeDeliver(p)

InitJoin == InitServing /\ relayUp

SpecJoin == InitJoin /\ [][NextJoin]_vars

\* The connected messages session s has received.
Welcomes(s) == {i \in 1..Len(inbox[s]) : inbox[s][i].type = "connected"}

(***************************************************************************)
(* C22: a session that has not been welcomed has received nothing (no      *)
(* pixel_updated, no stats, no user_list); a session that has connected    *)
(* has received exactly one connected message, as its first message, with  *)
(* its own client id.                                                      *)
(***************************************************************************)
C22_WelcomeFirst ==
  \A s \in Sessions :
    IF ws[s] = "new"
    THEN inbox[s] = <<>> /\ lastStats[s] = NoStats /\ lastUserList[s] = <<>>
    ELSE /\ Welcomes(s) = {1}
         /\ inbox[s][1].clientId = s

\* A session that joined while an edit was under way has got its welcome and then
\* the pixel_updated.
C22_Witness ==
  \E s \in Sessions :
    /\ Len(inbox[s]) >= 2
    /\ inbox[s][2].type = "pixel_updated"
    /\ edits[inbox[s][2].id].sender # s
    /\ lastStats[s] # NoStats

(***************************************************************************)
(* C23: a set_username whose username is missing, not a string or empty    *)
(* changes nothing at the gateway: no reply to the session, the stored     *)
(* names stay, no command goes to Redis and no stats or user_list is sent. *)
(***************************************************************************)
C23_BadNameIgnored ==
  [][\A s \in Sessions, v \in NamePayloads :
       (SetUsername(s, v) /\ ~(IsString(v) /\ Len(v.s) > 0))
       => UNCHANGED <<inbox, username, clients, ws, cmdQ, userQ, podKey, lastStats,
                      lastUserList>>]_vars

\* A session of a ready pod has sent its set_username and every name is still unset.
C23_Witness ==
  /\ names = 1
  /\ \A s \in Sessions : username[s] = Null
  /\ \E s \in Sessions : ws[s] = "open" /\ redisReady[Home(s)] /\ relayUp
  /\ \A p \in Pods : cmdQ[p] = <<>>

(***************************************************************************)
(* C29: the stored display name of a session is null or a string of 1 to   *)
(* 20 characters.                                                          *)
(* A name of spaces only passes the test for emptiness and is trimmed to   *)
(* the empty string afterwards.                                            *)
(***************************************************************************)
C29_NameShape ==
  \A s \in Sessions :
    \/ username[s] = Null
    \/ /\ IsString(username[s])
       /\ Len(username[s].s) >= 1
       /\ Len(username[s].s) <= MAX_USERNAME_LENGTH

(***************************************************************************)
(* C24: every pixel_updated a session has received carries, as username,   *)
(* the username of the payload of its edit if that is not empty, else the  *)
(* stored name of the sender if it is set, else "Anonymous".               *)
(***************************************************************************)
C24_UsernameResolved ==
  \A s \in Sessions : \A i \in 1..Len(inbox[s]) :
    inbox[s][i].type = "pixel_updated" =>
      LET d == edits[inbox[s][i].id]
      IN inbox[s][i].username =
           IF Truthy(d.username) THEN d.username
           ELSE IF Truthy(username[d.sender]) THEN username[d.sender]
           ELSE Anonymous

\* An edit without a name in its payload, from a session without a stored name, has
\* been broadcast as "Anonymous".
C24_Witness ==
  \E s \in Sessions : \E i \in 1..Len(inbox[s]) :
    /\ inbox[s][i].type = "pixel_updated"
    /\ inbox[s][i].username = Anonymous
    /\ edits[inbox[s][i].id].username = Null
    /\ username[edits[inbox[s][i].id].sender] = Null

\* A client sends a frame that is not JSON: JSON.parse throws in the message handler
\* and its catch replies. The message is kept in edits as a request that is over.
Malformed(s) ==
  /\ ws[s] = "open"
  /\ Len(edits) < MaxEdits
  /\ edits' = Append(edits, [sender |-> s, pod |-> Home(s), x |-> Null, y |-> Null,
                             color |-> Null, username |-> Null, st |-> "malformed",
                             res |-> NoRes, wrote |-> FALSE, ts |-> 0, aud |-> {}])
  /\ inbox' = SendTo(inbox, ws, s, ErrorMsg("Invalid message format"))
  /\ UNCHANGED <<relayUp, relayFails, clientVars, gatewayVars, sessionVars, lastStats, lastUserList,
                 relayVars, timerDue, names, canvasVars>>

\* Edits and frames that cannot be parsed.
NextReject ==
  \/ NextEdit
  \/ \E s \in Sessions : Malformed(s)

SpecReject == InitServing /\ [][NextReject]_vars

\* The input of request e failed a validation: JSON.parse, the typeof checks of the
\* gateway, or a check of the Canvas API (status 400).
Rejected(e) ==
  \/ edits[e].st \in {"malformed", "invalid"}
  \/ edits[e].st = "error" /\ edits[e].res.status = 400

(***************************************************************************)
(* C25: a request whose input fails validation is answered with an error   *)
(* message to its sender and reaches no session as pixel_updated; the      *)
(* sender stays open and registered; each session holds as many error      *)
(* messages as requests of its own have failed, so no session gets an      *)
(* error for the request of another; and the step that sends an error to   *)
(* one session sends nothing to any other.                                 *)
(***************************************************************************)
C25_ErrorsToSenderOnly ==
  /\ [](\A e \in Edits :
          Rejected(e) =>
            /\ CountErrors(edits[e].sender) >= 1
            /\ \A t \in Sessions : CountPixel(t, e) = 0
            /\ ws[edits[e].sender] = "open"
            /\ edits[e].sender \in clients[edits[e].pod])
  /\ [](\A s \in Sessions :
          CountErrors(s) =
            Cardinality({e \in Edits : /\ edits[e].sender = s
                                       /\ edits[e].st \in {"malformed", "invalid", "error"}}))
  /\ [][\A s \in Sessions :
          CountErrors(s)' > CountErrors(s) =>
            \A t \in Sessions \ {s} :
              /\ inbox'[t] = inbox[t]
              /\ lastStats'[t] = lastStats[t]
              /\ lastUserList'[t] = lastUserList[t]]_vars

\* A request that the Canvas API rejected has been answered, on a pod with another
\* open session.
C25_Witness ==
  \E e \in Edits :
    /\ Rejected(e)
    /\ edits[e].st = "error"
    /\ CountErrors(edits[e].sender) = 1
    /\ \E t \in clients[edits[e].pod] \ {edits[e].sender} : ws[t] = "open"

(***************************************************************************)
(* C26: the snapshot under a pod's key is written only by the setEx of     *)
(* that pod, with the value that pod computed and the full TTL; the step   *)
(* leaves the keys of the other pods alone; and a key goes away only when  *)
(* an interval passes with its TTL at its end.                             *)
(***************************************************************************)
C26_OwnKeyOnly ==
  [][\A p \in Pods :
       /\ (podKey'[p] # podKey[p] \/ ttl'[p] > ttl[p]) =>
            /\ cmdQ[p] # <<>>
            /\ Head(cmdQ[p]).op = "setEx"
            /\ podKey'[p] = Head(cmdQ[p]).val
            /\ ttl'[p] = TtlTicks
            /\ cmdQ'[p] # cmdQ[p]
            /\ \A q \in Pods \ {p} : podKey'[q] = podKey[q] /\ ttl'[q] = ttl[q]
       /\ (ttl[p] > 0 /\ ttl'[p] = 0) =>
            /\ ttl[p] = 1
            /\ \A q \in Pods : ~timerDue[q] /\ timerDue'[q]]_vars

\* Pod A has refreshed its key after an interval and pod B's key, with another
\* value, has not been touched.
C26_Witness ==
  /\ ttl["A"] = TtlTicks
  /\ ttl["B"] > 0 /\ ttl["B"] < TtlTicks
  /\ podKey["A"].count # podKey["B"].count
  /\ initPc["B"] = "listening"

(***************************************************************************)
(* The frontend: canvasData of the client of a session                     *)
(***************************************************************************)
\* canvasData[`${x},${y}`] of the client of session s, which loaded a white canvas:
\* the color of the last pixel_updated it received for the field; before any, the
\* color it drew itself when it sent its edit (the optimistic update); else white.
\* The error handler of the client writes nothing.
CanvasData(s, k) ==
  LET seen == {i \in 1..Len(inbox[s]) :
                 inbox[s][i].type = "pixel_updated" /\ PixelKey(inbox[s][i].x, inbox[s][i].y) = k}
      drawn == {e \in Edits : /\ edits[e].sender = s /\ WellFormed(edits[e])
                              /\ PixelKey(edits[e].x, edits[e].y) = k}
      Last(S) == CHOOSE i \in S : \A j \in S : j <= i
  IN IF seen # {} THEN inbox[s][Last(seen)].color
     ELSE IF drawn # {} THEN edits[Last(drawn)].color
     ELSE White

(***************************************************************************)
(* C27: when the edit a client drew is answered with an error, the cell    *)
(* on the client's canvas is back to the color it had before the edit.     *)
(* The client's error handler only shows the message: the cell keeps the   *)
(* color of the edit, which the store never got.                           *)
(***************************************************************************)
C27_RolledBack ==
  \A e \in Edits :
    LET k == PixelKey(edits[e].x, edits[e].y)
    IN (/\ WellFormed(edits[e])
        /\ edits[e].st = "error"
        /\ CountErrors(edits[e].sender) >= 1
        /\ \A f \in Edits : f # e => PixelKey(edits[f].x, edits[f].y) # k)
       => CanvasData(edits[e].sender, k) = Stored(pixels, k)

\* wss.on("connection") on a pod that may be waiting for a reply of Redis: the setEx
\* of the join is queued behind the command in flight.
ConnectBusy(s) ==
  LET p == Home(s)
      cl == [clients EXCEPT ![p] = @ \cup {s}]
      w == [ws EXCEPT ![s] = "open"]
      un == [username EXCEPT ![s] = Null]
  IN /\ ws[s] = "new"
     /\ initPc[p] = "listening"
     /\ Len(cmdQ[p]) < MaxPipeline
     /\ clients' = cl
     /\ ws' = w
     /\ username' = un
     /\ inbox' = [inbox EXCEPT ![s] = Append(@, [type |-> "connected", clientId |-> s])]
     /\ StartStats(p, cl, w, un)
     /\ UNCHANGED <<relayUp, relayFails, clientVars, gatewayVars, edits, pixelQ, userQ, podKey, ttl,
                    timerDue, names, canvasVars>>

\* Sessions join while the pods aggregate for the notices of other changes.
NextBusyJoin ==
  \/ \E s \in Sessions : ConnectBusy(s)
  \/ \E s \in Sessions : Close(s)
  \/ \E p \in Pods : RedisExec(p)
  \/ \E p \in Pods : NoticeDeliver(p)

SpecBusyJoin == InitHealthy /\ [][NextBusyJoin]_vars

(***************************************************************************)
(* C28: the first stats message a session receives counts at least the     *)
(* session itself.                                                         *)
(* An aggregation that read the pod's key before the join and broadcasts   *)
(* after it sends the old total to the new session.                        *)
(***************************************************************************)
C28_FirstStatsCountsSelf ==
  [][\A s \in Sessions :
       (lastStats[s] = NoStats /\ lastStats'[s] # NoStats) => lastStats'[s] >= 1]_vars

(***************************************************************************)
(* C30: while a pod runs with the relay ready, its key is there (the TTL   *)
(* of 60 s outlasts the 30 s between two rewrites), every total that an    *)
(* open session is sent counts the sessions of each running pod's key,     *)
(* and the pod rewrites its key with the full TTL again and again.         *)
(***************************************************************************)
C30_LiveKeyStays ==
  /\ [](\A p \in Pods : (initPc[p] = "listening" /\ redisReady[p]) => ttl[p] >= 1)
  /\ [][\A s \in Sessions :
          (ws'[s] = "open" /\ lastStats'[s] # lastStats[s]) =>
            \A p \in Pods : initPc'[p] = "listening" => lastStats'[s] >= podKey'[p].count]_vars
  /\ \A p \in Pods : (initPc[p] = "listening") ~> (ttl[p] = TtlTicks \/ initPc[p] = "crashed")

\* Two intervals have passed (the key of the crashed pod B has run out) and the key
\* of pod A, which has no session left, is there.
C30_Witness ==
  /\ initPc["B"] = "crashed" /\ ttl["B"] = 0
  /\ initPc["A"] = "listening" /\ clients["A"] = {}
  /\ ttl["A"] = TtlTicks /\ podKey["A"].count = 0

(***************************************************************************)
(* Session identifiers                                                     *)
(***************************************************************************)
\* generateClientId(): the identifier of session s as a JSON string.
ClientId(s) == Str(<<s>>)

\* A message that has a clientId field, or whose username is a client id.
CarriesClientId(m) ==
  \/ "clientId" \in DOMAIN m
  \/ "username" \in DOMAIN m /\ \E s \in Sessions : m.username = ClientId(s)

\* A presence snapshot that has a field besides count and usernames, or lists a
\* client id among its usernames.
SnapshotCarriesClientId(v) ==
  \/ DOMAIN v # {"count", "usernames"}
  \/ \E i \in 1..Len(v.usernames), s \in Sessions : v.usernames[i] = ClientId(s)

(***************************************************************************)
(* C31: no message that is published or about to be published on the      *)
(* pixel-updates or the user-events channel, and no presence snapshot      *)
(* stored or about to be stored under a pod's key, contains the clientId   *)
(* of a session.                                                           *)
(***************************************************************************)
C31_IdsStayLocal ==
  \A p \in Pods :
    /\ \A i \in 1..Len(pixelQ[p]) : ~CarriesClientId(pixelQ[p][i])
    /\ \A i \in 1..Len(cmdQ[p]) :
         LET c == cmdQ[p][i]
         IN /\ c.op \in {"publishPixel", "publishUser"} => ~CarriesClientId(c.msg)
            /\ c.op = "setEx" => ~SnapshotCarriesClientId(c.val)
    /\ ~SnapshotCarriesClientId(podKey[p])

\* The pixel_updated of a welcomed session's edit is on its way to a pod while a
\* snapshot that counts a named session is stored.
C31_Witness ==
  \E p, q \in Pods :
    /\ pixelQ[p] # <<>>
    /\ LET s == edits[pixelQ[p][1].id].sender
       IN Welcomes(s) = {1} /\ inbox[s][1].clientId = s
    /\ ttl[q] > 0
    /\ podKey[q].count > 0
    /\ Len(podKey[q].usernames) > 0

(***************************************************************************)
(* ping and messages of an unknown type                                    *)
(***************************************************************************)
Ping == Str(<<"p", "i", "n", "g">>)

\* The values of data.type that the switch has no case for, and ping.
OtherTypes == {Ping, Str(<<"p", "i", "n", "g", "!">>), Str(<<"P", "I", "N", "G">>), Null, Num(1)}

Pong == [type |-> "pong"]

CountPongs(s) == Cardinality({i \in 1..Len(inbox[s]) : inbox[s][i].type = "pong"})

RECURSIVE SumPongs(_)
SumPongs(ss) == IF ss = <<>> THEN 0 ELSE CountPongs(Head(ss)) + SumPongs(Tail(ss))

\* A switch whose default case answers like ping.
PingOrUnknownAlwaysPong(s, type) ==
  /\ ws[s] = "open"
  /\ SumPongs(SessionOrder) < MaxPings
  /\ inbox' = SendTo(inbox, ws, s, Pong)
  /\ UNCHANGED <<relayUp, relayFails, clientVars, gatewayVars, sessionVars, lastStats, lastUserList,
                 edits, relayVars, timerDue, names, canvasVars>>

\* ws.on("message") for a message whose type is ping (case "ping") or none of
\* set_username, pixel_update, ping (default).
PingOrUnknown(s, type) ==
  /\ ws[s] = "open"
  /\ IF type = Ping
     THEN /\ SumPongs(SessionOrder) < MaxPings
          /\ inbox' = SendTo(inbox, ws, s, Pong)
     ELSE UNCHANGED inbox
  /\ UNCHANGED <<relayUp, relayFails, clientVars, gatewayVars, sessionVars, lastStats, lastUserList,
                 edits, relayVars, timerDue, names, canvasVars>>

\* Edits, pings and unknown messages over a fixed membership.
NextPing ==
  \/ \E s \in Sessions, d \in RacePayloads : SendPixelUpdate(s, d)
  \/ \E e \in 1..MaxEdits : e <= Len(edits) /\ CanvasPut(e)
  \/ \E e \in 1..MaxEdits : e <= Len(edits) /\ GatewayResume(e)
  \/ \E p \in Pods : RedisExec(p)
  \/ \E p \in Pods : PixelDeliver(p)
  \/ \E s \in Sessions, type \in OtherTypes : PingOrUnknown(s, type)

SpecPing == InitJoin /\ [][NextPing]_vars

(***************************************************************************)
(* C32: the step that handles a ping appends one pong to the sender's      *)
(* messages and the step that handles a message of an unknown type appends *)
(* nothing; either step leaves the clients map, the sockets, the names,    *)
(* the pixel hash, the pods' keys, the relay's queues and what every other *)
(* session has received unchanged; and a session holds a pong only if it   *)
(* is open, so none was sent to a session that sent no ping.               *)
(***************************************************************************)
C32_PingPongOnly ==
  /\ [][\A s \in Sessions, type \in OtherTypes :
          PingOrUnknown(s, type) =>
            /\ inbox'[s] = IF type = Ping THEN Append(inbox[s], Pong) ELSE inbox[s]
            /\ \A t \in Sessions \ {s} : inbox'[t] = inbox[t]
            /\ UNCHANGED <<clients, ws, username, lastStats, lastUserList, pixels, podKey,
                           ttl, cmdQ, pixelQ, userQ, edits>>]_vars
  /\ [][\A s \in Sessions :
          CountPongs(s)' > CountPongs(s) =>
            /\ CountPongs(s)' = CountPongs(s) + 1
            /\ \A t \in Sessions \ {s} : inbox'[t] = inbox[t]
            /\ UNCHANGED <<clients, ws, username, lastStats, lastUserList, pixels, podKey,
                           ttl, cmdQ, pixelQ, userQ, edits>>]_vars
  /\ [](\A s \in Sessions : CountPongs(s) > 0 => ws[s] = "open")

\* A session on a pod with another open session holds its pong, while an edit is
\* under way.
C32_Witness ==
  \E s \in Sessions :
    /\ CountPongs(s) = 1
    /\ inbox[s][Len(inbox[s])] = Pong
    /\ \E t \in clients[Home(s)] \ {s} : ws[t] = "open" /\ CountPongs(t) = 0
    /\ edits # <<>>

(***************************************************************************)
(* SIGTERM.  The three variants of the gateway differ in the collection    *)
(* that clients is; their SIGTERM handlers read nothing else.  Each        *)
(* handler is an action on the registry of a pod.  The signal arrives      *)
(* while the pod has no Redis command under way.                           *)
(*   initPc: "quit" while the handler awaits the two quit() calls,         *)
(*   "stopping" once server.close() has been called, "exited" after        *)
(*   process.exit(0), "crashed" when the process died of an exception.     *)
(*   ws: "closing" after ws.close(1000, "Server shutting down").           *)
(***************************************************************************)
\* clients.forEach(... ws.close(1000, "Server shutting down"))
CloseAll(p) ==
  [s \in Sessions |-> IF s \in clients[p] /\ IsOpen(ws, s) THEN "closing" ELSE ws[s]]

\* The Redis variant: close every socket, then await redisPublisher.quit().
Sigterm(p) ==
  /\ initPc[p] = "listening"
  /\ cmdQ[p] = <<>>
  /\ ws' = CloseAll(p)
  /\ initPc' = [initPc EXCEPT ![p] = "quit"]
  /\ UNCHANGED <<relayUp, relayFails, clientVars, redisReady, subs, clients, username, seenVars, edits,
                 relayVars, timerDue, names, canvasVars>>

\* The Redis variant after the awaits: the subscriber has quit too; server.close().
SigtermResume(p) ==
  /\ initPc[p] = "quit"
  /\ subs' = [subs EXCEPT ![p] = {}]
  /\ pixelQ' = [pixelQ EXCEPT ![p] = <<>>]
  /\ userQ' = [userQ EXCEPT ![p] = 0]
  /\ initPc' = [initPc EXCEPT ![p] = "stopping"]
  /\ UNCHANGED <<relayUp, relayFails, clientVars, redisReady, sessionVars, seenVars, edits, cmdQ,
                 podKey, ttl, timerDue, names, canvasVars>>

\* The first variant: clients is a Set of sockets; forEach hands each socket to
\* the callback.
SigtermBasic(p) ==
  /\ initPc[p] = "listening"
  /\ cmdQ[p] = <<>>
  /\ ws' = CloseAll(p)
  /\ initPc' = [initPc EXCEPT ![p] = "stopping"]
  /\ UNCHANGED <<relayUp, relayFails, clientVars, redisReady, subs, clients, username, seenVars, edits,
                 relayVars, timerDue, names, canvasVars>>

\* The variant with user names: clients is a Map from socket to clientInfo and
\* forEach hands the callback the value first, so client.close is not a function:
\* with a session registered the TypeError leaves the handler and ends the process;
\* with none the callback never runs and server.close() is reached.
SigtermUsernames(p) ==
  /\ cmdQ[p] = <<>>
  /\ IF clients[p] = {}
     THEN /\ initPc[p] = "listening"
          /\ initPc' = [initPc EXCEPT ![p] = "stopping"]
          /\ UNCHANGED <<relayUp, relayFails, clientVars, redisReady, subs, sessionVars, seenVars,
                         edits, relayVars, timerDue, names, canvasVars>>
     ELSE Crash(p)

\* The callback of server.close(): every connection has ended; process.exit(0).
ServerClosed(p) ==
  /\ initPc[p] = "stopping"
  /\ \A s \in Sessions : Home(s) = p => ws[s] \in {"new", "closed"}
  /\ initPc' = [initPc EXCEPT ![p] = "exited"]
  /\ redisReady' = [redisReady EXCEPT ![p] = FALSE]
  /\ subs' = [subs EXCEPT ![p] = {}]
  /\ cmdQ' = [cmdQ EXCEPT ![p] = <<>>]
  /\ pixelQ' = [pixelQ EXCEPT ![p] = <<>>]
  /\ userQ' = [userQ EXCEPT ![p] = 0]
  /\ timerDue' = [timerDue EXCEPT ![p] = FALSE]
  /\ UNCHANGED <<relayUp, relayFails, clientVars, sessionVars, seenVars, edits, podKey, ttl, names,
                 canvasVars>>

\* Pods are told to stop while sessions leave; the peer of a socket that is closing
\* answers the close frame and ws.on("close") runs.
NextShutdown ==
  \/ \E p \in Pods : Sigterm(p)
  \/ \E p \in Pods : SigtermResume(p)
  \/ \E p \in Pods : SigtermBasic(p)
  \/ \E p \in Pods : SigtermUsernames(p)
  \/ \E p \in Pods : ServerClosed(p)
  \/ \E s \in Sessions : Close(s)
  \/ \E s \in Sessions : CloseAfterError(s)
  \/ \E p \in Pods : RedisExec(p)
  \/ \E p \in Pods : NoticeDeliver(p)

SpecShutdown == InitHealthy /\ [][NextShutdown]_vars

(***************************************************************************)
(* C33: the step by which a pod stops listening, whichever variant's       *)
(* SIGTERM handler it is, leaves every session registered on the pod with  *)
(* ws.close(1000) called on it and the pod on its way to server.close()    *)
(* (awaiting quit, or stopping); the process does not die instead.         *)
(***************************************************************************)
C33_GracefulShutdown ==
  [][\A p \in Pods :
       (initPc[p] = "listening" /\ initPc'[p] # "listening") =>
         /\ initPc'[p] \in {"quit", "stopping"}
         /\ \A s \in clients[p] : ws'[s] = "closing"]_vars

(***************************************************************************)
(* PUT /api/pixel called over HTTP, without the gateway                    *)
(***************************************************************************)
\* A client of the Canvas API sends PUT /api/pixel with body d.
ApiPut(d) ==
  /\ Len(edits) < MaxBurst
  /\ edits' = Append(edits, [sender |-> "http", pod |-> "none", x |-> d.x, y |-> d.y,
                             color |-> d.color, username |-> Null, st |-> "fetch",
                             res |-> NoRes, wrote |-> FALSE, ts |-> 0, aud |-> {}])
  /\ UNCHANGED <<relayUp, relayFails, clientVars, gatewayVars, sessionVars, seenVars, relayVars,
                 timerDue, names, canvasVars>>

\* Single-cell writes, directly and through the gateway, while the store fails and
\* recovers.
NextPut ==
  \/ StoreFail
  \/ CanvasRedisError
  \/ StoreRecover
  \/ \E d \in EditPayloads : ApiPut(d)
  \/ \E s \in Sessions, d \in EditPayloads : Len(edits) < MaxBurst /\ HandlePixelUpdate(s, d)
  \/ \E e \in 1..MaxBurst : e <= Len(edits) /\ CanvasPut(e)

SpecPut == InitCanvas /\ [][NextPut]_vars

\* The step in which PUT /api/pixel answers request e.
Answers(e) == e <= Len(edits) /\ edits[e].st = "fetch" /\ edits'[e].st = "response"

(***************************************************************************)
(* C34: the step in which PUT /api/pixel answers a request with a status   *)
(* other than 200 (400 for wrong types, coordinates out of range or a bad  *)
(* color; 503 while Redis is not connected; 500 when hSet fails) leaves    *)
(* the hash as it was; the step that answers 200 sets the field of the     *)
(* request's coordinates to the request's color and leaves every other     *)
(* field as it was; and a request gets 200 only if it passes the checks.   *)
(***************************************************************************)
C34_RejectedWritesNothing ==
  [][\A e \in 1..MaxBurst :
       Answers(e) =>
         LET d == edits[e]
             status == edits'[e].res.status
         IN /\ status # 200 => pixels' = pixels
            /\ status = 200 =>
                 /\ PassesChecks(d) /\ isRedisConnected
                 /\ DOMAIN pixels' = DOMAIN pixels \cup {PixelKey(d.x, d.y)}
                 /\ pixels'[PixelKey(d.x, d.y)] = d.color
                 /\ \A f \in DOMAIN pixels \ {PixelKey(d.x, d.y)} : pixels'[f] = pixels[f]
            /\ status \in {200, 400, 500, 503}
            /\ (~isRedisConnected) => status = 503
            /\ (isRedisConnected /\ ~PassesChecks(d)) => status = 400]_vars

\* With a cell written before, one request was answered 400 and one 503, and the
\* cell holds what was written.
C34_Witness ==
  /\ Len(edits) = MaxBurst
  /\ edits[1].st = "response" /\ edits[1].res.status = 200
  /\ edits[2].st = "response" /\ edits[2].res.status \in {400, 503}
  /\ DOMAIN pixels = {PixelKey(edits[1].x, edits[1].y)}
  /\ pixels[PixelKey(edits[1].x, edits[1].y)] = edits[1].color
  /\ IsNumber(edits[2].x) /\ IsNumber(edits[2].y)
  /\ PixelKey(edits[2].x, edits[2].y) = PixelKey(edits[1].x, edits[1].y)

(***************************************************************************)
(* The frontend's WebSocketService (websocketService.js with user names).  *)
(* One instance of the service runs in a browser; the sockets it creates   *)
(* are the sessions of the gateway.  ws[s] is the gateway's side of socket *)
(* s and readyState[s] the browser's side.  The pods run without the relay *)
(* (single-instance mode) in these scenarios.                              *)
(***************************************************************************)
serverVars ==
  <<relayUp, relayFails, gatewayVars, sessionVars, seenVars, edits, relayVars, timerDue,
    names, canvasVars>>

\* The usernames the application passes to connect().
ServiceNames == {Bob, Str(<<" ", "b", "o", "b", " ">>), Null}

\* The sockets of the service that are connecting or open.
Live == {s \in Sessions : readyState[s] \in {"connecting", "open"}}

\* The sockets that are not closed yet and the timers that will create one.
Pending ==
  reconnectTimers + Cardinality({s \in Sessions : readyState[s] \in {"connecting", "open", "closing"}})

\* connect(onStatusChange, username): new WebSocket(CONFIG.WS_URL) is socket s.
ServiceConnect(s, name) ==
  /\ readyState[s] = "none"
  /\ ws[s] = "new"
  /\ serviceUsername' = name
  /\ shouldReconnect' = TRUE
  /\ serviceWs' = s
  /\ readyState' = [readyState EXCEPT ![s] = "connecting"]
  /\ UNCHANGED <<sent, crashes, serverVars>>

\* The application calls connect().
AppConnect(s, name) ==
  /\ Pending < MaxSockets
  /\ ServiceConnect(s, name)
  /\ UNCHANGED reconnectTimers

\* A timer set by onclose fires: this.connect(this.onStatusChange, this.username).
TimerFires(s) ==
  /\ reconnectTimers > 0
  /\ reconnectTimers' = reconnectTimers - 1
  /\ ServiceConnect(s, serviceUsername)

\* The gateway accepts the connection: wss.on("connection").
Accept(s) == readyState[s] = "connecting" /\ Connect(s)

\* An onopen handler that sends no set_username.
OnOpenNoUsername(s) ==
  /\ readyState[s] = "connecting"
  /\ ws[s] \in {"open", "closed"}
  /\ readyState' = [readyState EXCEPT ![s] = "open"]
  /\ UNCHANGED <<serviceWs, shouldReconnect, serviceUsername, reconnectTimers, sent, crashes,
                 serverVars>>

\* ws.onopen of socket s: this.send({type: "set_username", ...}) if this.username;
\* send() writes to this.ws if that socket is OPEN.
OnOpen(s) ==
  /\ readyState[s] = "connecting"
  /\ ws[s] \in {"open", "closed"}
  /\ readyState' = [readyState EXCEPT ![s] = "open"]
  /\ sent' = IF /\ Truthy(serviceUsername)
                /\ serviceWs # NoSocket
                /\ readyState'[serviceWs] = "open"
             THEN [sent EXCEPT ![serviceWs] = Append(@, serviceUsername)]
             ELSE sent
  /\ UNCHANGED <<serviceWs, shouldReconnect, serviceUsername, reconnectTimers, crashes,
                 serverVars>>

\* The gateway's message handler gets a set_username the service sent on socket s;
\* the frame is lost if the gateway's side of the socket is gone.
ReceiveSetUsername(s) ==
  /\ sent[s] # <<>>
  /\ sent' = [sent EXCEPT ![s] = Tail(@)]
  /\ IF ws[s] = "open"
     THEN HandleSetUsername(s, Head(sent[s])) /\ UNCHANGED names
     ELSE UNCHANGED serverVars
  /\ UNCHANGED <<serviceWs, shouldReconnect, serviceUsername, reconnectTimers, readyState,
                 crashes>>

\* The body of ws.onclose: setTimeout(connect, reconnectTimeout) if shouldReconnect.
OnCloseHandler ==
  reconnectTimers' = IF shouldReconnect THEN reconnectTimers + 1 ELSE reconnectTimers

\* No gateway answers the connection attempt: the socket's onclose runs.  The
\* gateway never saw the socket, so its identity is free again.
Refuse(s) ==
  /\ readyState[s] = "connecting"
  /\ ws[s] = "new"
  /\ initPc[Home(s)] # "listening"
  /\ readyState' = [readyState EXCEPT ![s] = "none"]
  /\ OnCloseHandler
  /\ UNCHANGED <<serviceWs, shouldReconnect, serviceUsername, sent, crashes, serverVars>>

\* ws.onclose of a socket whose gateway side is gone, or that the service closed.
OnClose(s) ==
  /\ \/ readyState[s] = "open" /\ ws[s] = "closed"
     \/ readyState[s] = "closing" /\ ws[s] \in {"new", "closed"}
  /\ readyState' = [readyState EXCEPT ![s] = "closed"]
  /\ OnCloseHandler
  /\ UNCHANGED <<serviceWs, shouldReconnect, serviceUsername, sent, crashes, serverVars>>

\* disconnect()
Disconnect ==
  /\ shouldReconnect' = FALSE
  /\ serviceWs' = NoSocket
  /\ readyState' =
       IF serviceWs # NoSocket /\ readyState[serviceWs] \in {"connecting", "open"}
       THEN [readyState EXCEPT ![serviceWs] = "closing"]
       ELSE readyState
  /\ UNCHANGED <<serviceUsername, reconnectTimers, sent, crashes, serverVars>>

\* The gateway gets the close frame of a socket the service closed: ws.on("close").
PeerClose(s) == readyState[s] = "closing" /\ Close(s)

\* A gateway process is killed.
Kill(p) == crashes < MaxCrashes /\ Crash(p)

\* Kubernetes starts a new process for the pod.
Restart(p) ==
  /\ initPc[p] = "crashed"
  /\ initPc' = [initPc EXCEPT ![p] = "connect"]
  /\ UNCHANGED <<relayUp, relayFails, clientVars, redisReady, subs, sessionVars, seenVars,
                 edits, relayVars, timerDue, names, canvasVars>>

InitService == Init /\ ~relayUp

\* The application calls connect() and disconnect() as it likes while gateways die
\* and come back.
NextService ==
  \/ \E p \in Pods : InitConnect(p)
  \/ \E s \in Sessions, name \in ServiceNames : AppConnect(s, name)
  \/ \E s \in Sessions : TimerFires(s)
  \/ \E s \in Sessions : Accept(s)
  \/ \E s \in Sessions : OnOpen(s)
  \/ \E s \in Sessions : ReceiveSetUsername(s)
  \/ \E s \in Sessions : Refuse(s)
  \/ \E s \in Sessions : OnClose(s)
  \/ Disconnect
  \/ \E s \in Sessions : PeerClose(s)
  \/ \E p \in Pods : Kill(p)
  \/ \E p \in Pods : Restart(p)

SpecService == InitService /\ [][NextService]_vars

\* The application calls connect() once and never disconnect().
NextReconnect ==
  \/ \E p \in Pods : InitConnect(p)
  \/ \E s \in Sessions, name \in ServiceNames : serviceWs = NoSocket /\ AppConnect(s, name)
  \/ \E s \in Sessions : TimerFires(s)
  \/ \E s \in Sessions : Accept(s)
  \/ \E s \in Sessions : OnOpen(s)
  \/ \E s \in Sessions : ReceiveSetUsername(s)
  \/ \E s \in Sessions : Refuse(s)
  \/ \E s \in Sessions : OnClose(s)
  \/ \E p \in Pods : Kill(p)
  \/ \E p \in Pods : Restart(p)

\* The browser runs every event handler and every timer that is due, the gateway
\* runs its handlers, startServer runs to its end and Kubernetes restarts a pod
\* that died.
FairReconnect ==
  /\ InitService
  /\ [][NextReconnect]_vars
  /\ \A p \in Pods : WF_vars(InitConnect(p))
  /\ \A p \in Pods : WF_vars(Restart(p))
  /\ WF_vars(\E s \in Sessions : TimerFires(s))
  /\ \A s \in Sessions : WF_vars(Accept(s))
  /\ \A s \in Sessions : WF_vars(OnOpen(s))
  /\ \A s \in Sessions : WF_vars(ReceiveSetUsername(s))
  /\ \A s \in Sessions : WF_vars(Refuse(s))
  /\ \A s \in Sessions : WF_vars(OnClose(s))

\* What the gateway stores for the name the service holds.
StoredName == IF Truthy(serviceUsername) THEN Sanitize(serviceUsername) ELSE Null

\* The service's socket is open on both sides and registered under the service's name.
Connected ==
  /\ serviceWs # NoSocket
  /\ readyState[serviceWs] = "open"
  /\ ws[serviceWs] = "open"
  /\ serviceWs \in clients[Home(serviceWs)]
  /\ username[serviceWs] = StoredName

(***************************************************************************)
(* C35: every close event of a socket of the service sets a reconnect      *)
(* timer; and whenever the gateway side of a socket of the service is gone *)
(* (the gateway was killed), the service is eventually connected again, on *)
(* a socket that is open on both sides and registered at the gateway under *)
(* the name the service holds.                                             *)
(***************************************************************************)
C35_ReconnectsUnderSameName ==
  /\ [][\A s \in Sessions :
          (readyState[s] \in {"connecting", "open"} /\ readyState'[s] \in {"none", "closed"}) =>
            reconnectTimers' = reconnectTimers + 1]_vars
  /\ \A s \in Sessions :
       (ws[s] = "closed" /\ readyState[s] \in {"connecting", "open"}) ~> Connected

\* After a gateway was killed under an open socket, the service is connected on
\* another socket under the name it holds.
C35_Witness ==
  /\ crashes = 1
  /\ Connected
  /\ Truthy(serviceUsername)
  /\ \E s \in Sessions \ {serviceWs} : readyState[s] = "closed" /\ ws[s] = "closed"

(***************************************************************************)
(* C36: while shouldReconnect is false, that is after disconnect() and     *)
(* before the next connect() of the application, no socket is created: a   *)
(* step that creates a socket while shouldReconnect is false is the        *)
(* application's connect() and consumes no reconnect timer.                *)
(* disconnect() does not cancel the timer an earlier onclose has set, and  *)
(* the timer's callback calls connect().                                   *)
(***************************************************************************)
C36_NoConnectAfterDisconnect ==
  [][\A s \in Sessions :
       (readyState[s] = "none" /\ readyState'[s] = "connecting" /\ ~shouldReconnect) =>
         reconnectTimers' = reconnectTimers]_vars

(***************************************************************************)
(* C37: at most one socket of the service is connecting or open.           *)
(* connect() does not close the socket this.ws refers to before it creates *)
(* the next one, and a pending timer creates one more.                     *)
(***************************************************************************)
C37_OneSocket == Cardinality(Live) <= 1

\* Every request has been answered and every published pixel_updated delivered.
Settled ==
  /\ \A e \in Edits : edits[e].st \in {"invalid", "malformed", "error", "published", "fallback"}
  /\ \A p \in Pods : pixelQ[p] = <<>>

(***************************************************************************)
(* C38: once every edit has been answered and every broadcast delivered,   *)
(* canvasData of the client of every open session holds, for every field   *)
(* an edit addressed, the color the store holds.                           *)
(* A client whose edit was answered with an error keeps the color it drew. *)
(***************************************************************************)
C38_CanvasEqualsStore ==
  Settled =>
    \A s \in Sessions :
      ws[s] = "open" =>
        \A e \in Edits :
          WellFormed(edits[e]) =>
            CanvasData(s, PixelKey(edits[e].x, edits[e].y))
              = Stored(pixels, PixelKey(edits[e].x, edits[e].y))

\* The commands of a pipeline that write a snapshot or publish a notice.
RECURSIVE Writes(_)
Writes(q) ==
  IF q = <<>> THEN 0
  ELSE (IF Head(q).op \in {"setEx", "publishUser"} THEN 1 ELSE 0) + Writes(Tail(q))

(***************************************************************************)
(* C39: a pod that takes a user_update notice from the presence channel    *)
(* starts no setEx and no publish and leaves every snapshot as it is; a    *)
(* pod that uses the relay starts one setEx, followed by one publish, when *)
(* a session joins or leaves it, and nothing else but the interval timer   *)
(* starts one; a publish puts at most one notice before every pod; and     *)
(* again and again no command and no notice is under way.                  *)
(***************************************************************************)
C39_NoEcho ==
  /\ [][\A p \in Pods :
          /\ userQ'[p] < userQ[p] =>
               /\ Writes(cmdQ'[p]) = Writes(cmdQ[p])
               /\ podKey' = podKey
               /\ ttl' = ttl
          /\ (clients'[p] # clients[p] /\ UsesRelay(p)) =>
               Writes(cmdQ'[p]) = Writes(cmdQ[p]) + 1
          /\ Writes(cmdQ'[p]) > Writes(cmdQ[p]) =>
               /\ Writes(cmdQ'[p]) = Writes(cmdQ[p]) + 1
               /\ clients'[p] # clients[p] \/ (timerDue[p] /\ ~timerDue'[p])
          /\ userQ'[p] > userQ[p] =>
               /\ userQ'[p] = userQ[p] + 1
               /\ \E q \in Pods :
                    /\ cmdQ[q] # <<>>
                    /\ Head(cmdQ[q]).op = "publishUser"
                    /\ Writes(cmdQ'[q]) = Writes(cmdQ[q]) - 1]_vars
  /\ []<>Quiet

\* Pod q has written its snapshot for a session that joined it; pod p, which has
\* written none, has taken the notice and has only the keys command under way.
C39_Witness ==
  \E p, q \in Pods :
    /\ p # q
    /\ clients[q] # {}
    /\ ttl[q] > 0
    /\ ttl[p] = 0
    /\ clients[p] = {}
    /\ UsesRelay(p)
    /\ userQ[p] = 0
    /\ cmdQ[p] = <<KeysCmd>>

(***************************************************************************)
(* C40: a pod that has finished initRedis without setting redisReady has   *)
(* no subscription on the pixel-updates or the user-events channel.        *)
(* initRedis sets redisReady after its last await only: when the second    *)
(* subscribe fails the first subscription stays.                           *)
(***************************************************************************)
C40_AttachedOrDetached ==
  \A p \in Pods : (initPc[p] = "listening" /\ ~redisReady[p]) => subs[p] = {}

====
